---------------------------- MODULE Spec2Model ----------------------------
(***************************************************************************)
(* Lumos: the audio-synchronised lesson player (src/app/lesson/[id]/       *)
(* page.tsx), the cue-to-timestamp resolver of the generate-audio route    *)
(* and the drag-and-drop sandbox (DragDropSandbox component).               *)
(*                                                                         *)
(* Texts are sequences of one-character strings, so that lower-casing,     *)
(* whitespace splitting and punctuation stripping are computed, not        *)
(* assumed.  Times are whole seconds.                                      *)
(***************************************************************************)
EXTENDS Integers, Sequences, FiniteSets, TLC

VARIABLES
  \* ---- generate-audio route, POST: one request being served
  srvWords,        \* result.words, the forced alignment
  srvImageCues,    \* imageCues of the request body
  srvImageTimings, \* imageTimings, the array being built
  cueIndex,        \* the loop variable of the cue loop
  srvPc,           \* "idle" | "guard" | "loop" | "done"
  \* ---- generate-lesson route, POST: one lesson being assembled
  rawMilestones,   \* what generateLessonStructure returned
  allImages,       \* what fetchMultipleImages returned
  imageIndex,      \* let imageIndex of the distribution
  milestones,      \* the array rawMilestones.map(...) is building
  lessonPc,        \* "idle" | "fetch" | "distribute" | "done"
  \* ---- lesson page (LessonPage component)
  lesson,               \* <<>> is null, else the sequence of milestones
  currentMilestone,
  isPlaying,
  audioUrl,             \* 0 is '', else 1 + the milestone the audio was made for
  audioTime,            \* audio.currentTime of the <audio> element
  audioPlaying,         \* whether the element is really playing
  tickDue,              \* a 'timeupdate' event is queued on the element
  duration,
  currentTime,
  wordAlignments,
  imageTimings,
  currentWordIndex,
  currentImageIndex,
  currentSentenceIndex,
  manualImageOverride,
  hOverride,            \* manualImageOverride as closed over by the registered handleTimeUpdate
  depAudio,             \* audioRef.current as the effect's dependency array last saw it
  overrideTimers,       \* pending setTimeout(..., 5000) of handleImageChange: seconds left
  navTimers,            \* pending setTimeout(..., 300) of handleMilestoneChange: target index
  imageLoads,           \* pending new Image() loads of handleImageChange: target index
  audioFetches,         \* pending fetch('/api/generate-audio'): milestone index
  sinceChange,          \* seconds since the latest manual image change (history)
  manualTarget,         \* the index of that change, -1 once its window is over (history)
  lastOp,               \* "tick", "seek", "image" or "other": the handler that ran last (history)
  \* ---- DragDropSandbox component
  inventory,
  combineZone,
  created,
  lastExplanation,
  showCelebration,
  checkTimers,          \* pending setTimeout(() => checkCombination(...), 100):
                        \*   [pieces: its argument, created: created as its closure sees it]
  successTimers,        \* pending setTimeout(..., 300) of a match: [combo, created]
  finalTimers,          \* number of pending setTimeout(..., 500) of the final celebration
  lastChecked,          \* piecesInZone of checkCombination if it is what ran last (history)
  lastOutcome,          \* the combination that call found, 0 for none (history)
  data,                 \* the data prop: its mode, targetPiece and breakdownLevels
  currentLevel,
  revealed,             \* the indices of the breakdownLevels put into the inventory (history)
  afterReset,           \* resetSandbox ran and no user action since (history)
  \* ---- quiz of the lesson page, and the generate-quiz route
  showQuiz,
  loadingQuiz,
  quizState,            \* <<>> is null, else <<the QuizState record>>
  completedSections,
  highestSection,
  lessonComplete,
  quizFetch,            \* the fetch('/api/generate-quiz') of loadQuiz: none, sent or replied
  quizCache,            \* the route's quizCache: a set of [key, result] entries
  quizRoute,            \* which of the two copies of the route is deployed
  answered,             \* the answers recorded in the current attempt, in order (history)
  retried,              \* handleRetryQuiz has run on the quiz that is open (history)
  \* ---- TeachingChallenge component, and the teaching-challenge route
  mounted,              \* the component is mounted
  messages,
  currentInput,
  isThinking,
  understanding,
  isComplete,
  error,
  retryCount,
  challengeFetch,       \* the fetch('/api/teaching-challenge') of the component: none, sent
                        \*   (with its action) or replied (with the body)
  errorTimers,          \* number of pending setTimeout(() => setError(null), delay)
  kidAudioUrl,          \* audioUrl of the component
  voiceFetches          \* pending fetch('/api/generate-kid-voice'): the text to speak

lessonVars == <<rawMilestones, allImages, imageIndex, milestones, lessonPc>>
srvVars == <<srvWords, srvImageCues, srvImageTimings, cueIndex, srvPc, lessonVars>>
pageVars == <<lesson, currentMilestone, isPlaying, audioUrl, audioTime, audioPlaying, tickDue,
              duration, currentTime, wordAlignments, imageTimings, currentWordIndex,
              currentImageIndex, currentSentenceIndex, manualImageOverride, hOverride,
              depAudio, overrideTimers, navTimers, imageLoads, audioFetches,
              sinceChange, manualTarget, lastOp>>
boxVars == <<inventory, combineZone, created, lastExplanation, showCelebration,
             checkTimers, successTimers, finalTimers, lastChecked, lastOutcome,
             data, currentLevel, revealed, afterReset>>
quizVars == <<showQuiz, loadingQuiz, quizState, completedSections, highestSection,
              lessonComplete, quizFetch, quizCache, quizRoute, answered, retried>>
teachVars == <<mounted, messages, currentInput, isThinking, understanding, isComplete, error,
               retryCount, challengeFetch, errorTimers, kidAudioUrl, voiceFetches>>
vars == <<srvVars, pageVars, boxVars, quizVars, teachVars>>

---------------------------------------------------------------------------
(* Text helpers: JavaScript string operations on character sequences.      *)

\* String.prototype.toLowerCase, on the alphabet of the model's texts
Lower(c) ==
  CASE c = "A" -> "a"
    [] c = "B" -> "b"
    [] c = "C" -> "c"
    [] c = "D" -> "d"
    [] OTHER -> c

ToLowerCase(s) == [i \in 1..Len(s) |-> Lower(s[i])]

\* \s of the regular expressions
IsSpace(c) == c = " "

\* the character class [.,!?;:\s] of the route's replace()
StripClass == {".", ",", "!", "?", ";", ":", " "}

\* s.replace(/[.,!?;:\s]/g, '')
StripPunct(s) == SelectSeq(s, LAMBDA c : c \notin StripClass)

RECURSIVE SplitRuns(_, _, _)
SplitRuns(s, i, cur) ==
  IF i > Len(s)
  THEN IF cur = <<>> THEN <<>> ELSE <<cur>>
  ELSE IF IsSpace(s[i])
       THEN (IF cur = <<>> THEN <<>> ELSE <<cur>>) \o SplitRuns(s, i + 1, <<>>)
       ELSE SplitRuns(s, i + 1, Append(cur, s[i]))

\* s.split(/\s+/).filter(w => w.length > 0)
SplitWhitespace(s) == SplitRuns(s, 1, <<>>)

\* String.prototype.trim
RECURSIVE Trim(_)
Trim(s) ==
  IF s = <<>> THEN s
  ELSE IF IsSpace(Head(s)) THEN Trim(Tail(s))
  ELSE IF IsSpace(s[Len(s)]) THEN Trim(SubSeq(s, 1, Len(s) - 1))
  ELSE s

IsTerminator(c) == c \in {".", "!", "?"}

\* the matches of /[^.!?]+[.!?]+/g from position i on; st is 0 when no body
\* character of the current match was read yet, 1 inside the body, 2 inside
\* the run of terminators
RECURSIVE SentenceMatches(_, _, _, _)
SentenceMatches(s, i, st, cur) ==
  IF i > Len(s)
  THEN IF st = 2 THEN <<cur>> ELSE <<>>
  ELSE IF IsTerminator(s[i])
       THEN IF st = 0
            THEN SentenceMatches(s, i + 1, 0, <<>>)
            ELSE SentenceMatches(s, i + 1, 2, Append(cur, s[i]))
       ELSE IF st = 2
            THEN <<cur>> \o SentenceMatches(s, i + 1, 1, <<s[i]>>)
            ELSE SentenceMatches(s, i + 1, 1, Append(cur, s[i]))

\* splitIntoSentences(text)
splitIntoSentences(text) ==
  LET m == SentenceMatches(text, 1, 0, <<>>)
  IN  IF m = <<>> THEN <<text>> ELSE [i \in 1..Len(m) |-> Trim(m[i])]

Min(a, b) == IF a <= b THEN a ELSE b

---------------------------------------------------------------------------
(* generate-audio route: image timings from the cues and the alignment.    *)

Word(t, s, e) == [text |-> t, start |-> s, end |-> e]

\* duration when the last word's end is falsy: `|| 10`
FallbackDuration == 10

\* cue.toLowerCase().split(/\s+/).filter(w => w.length > 0)
CueWords(cue) == SplitWhitespace(ToLowerCase(cue))

\* the inner j loop: every cue word equals the alignment word at i + j, both
\* stripped of [.,!?;:\s], the alignment word lower-cased first (i is 0-based)
MatchAt(words, cueWords, i) ==
  \A j \in 0..(Len(cueWords) - 1) :
     StripPunct(ToLowerCase(words[i + j + 1].text)) = StripPunct(cueWords[j + 1])

\* the i loop: foundTime is the start of the first window that matches, else -1
FindCue(words, cueWords) ==
  LET hits == {i \in 0..(Len(words) - Len(cueWords)) : MatchAt(words, cueWords, i)}
  IN  IF hits = {} THEN -1
      ELSE words[(CHOOSE i \in hits : \A h \in hits : i <= h) + 1].start

\* the proportional slot counted from 1 instead of 0
FallbackTimeFromOne(words, n, k) ==
  LET e == words[Len(words)].end
      d == IF e = 0 THEN FallbackDuration ELSE e
  IN  (d \div n) * (k + 1)

\* (duration / imageCues.length) * cueIndex; the texts of the model keep every
\* duration a multiple of the number of cues, so the quotient is exact
FallbackTime(words, n, k) ==
  LET e == words[Len(words)].end
      d == IF e = 0 THEN FallbackDuration ELSE e
  IN  (d \div n) * k

\* one iteration of the cue loop, for cueIndex k (0-based)
CueTiming(words, cues, k) ==
  LET foundTime == FindCue(words, CueWords(cues[k + 1]))
  IN  IF foundTime < 0 THEN FallbackTime(words, Len(cues), k) ELSE foundTime

\* the guard of the whole computation
CuesApply(words, cues) == Len(cues) > 0 /\ Len(words) > 0

\* a cue loop that pushes a timing for the cues it finds only
CalcImageTimingsFoundOnly(words, cues) ==
  IF CuesApply(words, cues)
  THEN SelectSeq([k \in 1..Len(cues) |-> FindCue(words, CueWords(cues[k]))],
                 LAMBDA foundTime : foundTime >= 0)
  ELSE <<>>

\* imageTimings of the response
CalcImageTimings(words, cues) ==
  IF CuesApply(words, cues)
  THEN [k \in 1..Len(cues) |-> CueTiming(words, cues, k - 1)]
  ELSE <<>>

(* Alignments and cue lists the resolver is run on. *)
WordsA == << Word(<<"A">>, 1, 2), Word(<<"b", ".">>, 2, 3),
             Word(<<"C">>, 4, 5), Word(<<"d", ".">>, 5, 6) >>
WordsB == << Word(<<"C", ".">>, 0, 2), Word(<<"A">>, 2, 3), Word(<<"b", "!">>, 3, 6) >>
WordsC == << Word(<<"a">>, 0, 1), Word(<<"B">>, 1, 2),
             Word(<<"a">>, 2, 3), Word(<<"b", ",">>, 3, 6) >>
WordsD == << Word(<<"D", "-", "a">>, 2, 6) >>

CuesA == << <<"b">>, <<"C", " ", "d">>, <<"A">> >>
CuesB == << <<"c">>, <<"x", " ", "y">>, <<"b">> >>
CuesC == << <<"c">>, <<"x", " ", "y">> >>

SrvAlignments == {WordsA, WordsB, WordsC, WordsD, <<>>}
SrvCueLists ==
  { CuesA, CuesB, CuesC,
    <<>>,
    << <<"a", " ", "b">> >>,
    << <<"A", " ", " ", "B", ".">>, <<"b", " ", "a">> >>,
    << <<"b", " ", "a">>, <<"a", " ", "b">> >>,
    << <<"d", "a">>, <<"d", "-", "a">> >>,
    << <<>> >>,
    << <<"b", " ", ",", " ", "c">>, <<" ", "c", ".", " ">> >>,
    << <<"a", " ", "b", " ", "a", " ", "b", " ", "a">> >>,
    << <<"d">>, <<"d">>, <<"z">> >> }

\* no lesson is being assembled
LessonRouteIdle ==
  /\ rawMilestones = <<>>
  /\ allImages = <<>>
  /\ imageIndex = 0
  /\ milestones = <<>>
  /\ lessonPc = "idle"

SrvIdle ==
  /\ srvWords = <<>>
  /\ srvImageCues = <<>>
  /\ srvImageTimings = <<>>
  /\ cueIndex = 0
  /\ srvPc = "idle"
  /\ LessonRouteIdle

\* the request arrives: audio generated, imageTimings = []
SrvInit ==
  /\ srvWords \in SrvAlignments
  /\ srvImageCues \in SrvCueLists
  /\ srvImageTimings = <<>>
  /\ cueIndex = 0
  /\ srvPc = "guard"
  /\ LessonRouteIdle

\* if (imageCues && imageCues.length > 0 && result.words.length > 0)
SrvGuard ==
  /\ srvPc = "guard"
  /\ srvPc' = IF CuesApply(srvWords, srvImageCues) THEN "loop" ELSE "done"
  /\ UNCHANGED <<srvWords, srvImageCues, srvImageTimings, cueIndex, lessonVars>>
  /\ UNCHANGED <<pageVars, boxVars, quizVars, teachVars>>

\* one pass of for (cueIndex ...): imageTimings.push(foundTime)
SrvCueStep ==
  /\ srvPc = "loop"
  /\ cueIndex < Len(srvImageCues)
  /\ srvImageTimings' = Append(srvImageTimings, CueTiming(srvWords, srvImageCues, cueIndex))
  /\ cueIndex' = cueIndex + 1
  /\ srvPc' = IF cueIndex + 1 < Len(srvImageCues) THEN "loop" ELSE "done"
  /\ UNCHANGED <<srvWords, srvImageCues, lessonVars>>
  /\ UNCHANGED <<pageVars, boxVars, quizVars, teachVars>>

---------------------------------------------------------------------------
(* Lesson page: data.                                                      *)

\* "A b. C d."
TranscriptA == <<"A", " ", "b", ".", " ", "C", " ", "d", ".">>
\* "C. A b!"
TranscriptB == <<"C", ".", " ", "A", " ", "b", "!">>

\* Milestones of a lesson.  A has more cues than images, and cues out of
\* transcript order; B has fewer cues than images, one of them not in the
\* transcript; C came without image descriptions and cues, and holds the
\* fallback image alone
MilestoneA == [transcript |-> TranscriptA, imageUrls |-> <<"a0", "a1">>, imageCues |-> CuesA]
MilestoneB == [transcript |-> TranscriptB, imageUrls |-> <<"b0", "b1", "b2">>, imageCues |-> CuesC]
MilestoneC == [transcript |-> TranscriptB, imageUrls |-> <<"education">>, imageCues |-> <<>>]

\* the lessons GET /api/generate-lesson may return: one milestone each, so
\* that the page stays on its section
Lessons == { <<MilestoneA>>, <<MilestoneB>>, <<MilestoneC>> }

\* elevenlabs.forcedAlignment.create(...).words for a transcript
ForcedAlignment(transcript) ==
  IF transcript = TranscriptA THEN WordsA ELSE WordsB

\* audio.duration of the audio generated for a transcript
AudioDuration(transcript) ==
  LET w == ForcedAlignment(transcript) IN w[Len(w)].end

\* the delay of handleImageChange's setTimeout, in seconds (5000 ms)
OverrideDelay == 5

\* pending timers, image loads and audio requests the model follows at once
MaxTimers == 2
MaxLoads == 1
MaxFetches == 1

\* showFullText: no handler ever sets it to true
showFullText == FALSE

\* milestone.imageTimings || []: the lesson route never sets imageTimings
MilestoneImageTimings(milestone) == <<>>

---------------------------------------------------------------------------
(* Lesson page: handleTimeUpdate.                                          *)

\* findIndex with the interval closed at its end
FindWordIndexClosed(words, t) ==
  LET hits == {i \in 1..Len(words) : t >= words[i].start /\ t <= words[i].end}
  IN  IF hits = {} THEN -1
      ELSE (CHOOSE i \in hits : \A h \in hits : i <= h) - 1

\* wordAlignments.findIndex(w => t >= w.start && t < w.end), 0-based, -1 if none
FindWordIndex(words, t) ==
  LET hits == {i \in 1..Len(words) : t >= words[i].start /\ t < words[i].end}
  IN  IF hits = {} THEN -1
      ELSE (CHOOSE i \in hits : \A h \in hits : i <= h) - 1

\* wordCharPos after the j loop: the lengths of the words 0..idx, each plus 1
RECURSIVE WordCharPos(_, _)
WordCharPos(words, n) ==
  IF n = 0 THEN 0 ELSE Len(words[n].text) + 1 + WordCharPos(words, n - 1)

\* charCount after sentence i (1-based): the lengths of the sentences up to it
RECURSIVE CharCount(_, _)
CharCount(sentences, n) ==
  IF n = 0 THEN 0 ELSE Len(sentences[n]) + CharCount(sentences, n - 1)

\* the sentence loop: the first sentence i (0-based) with wordCharPos <= charCount,
\* -1 when the loop ends without one
SentenceIndexFor(sentences, words, idx) ==
  LET pos == WordCharPos(words, idx + 1)
      hits == {i \in 1..Len(sentences) : pos <= CharCount(sentences, i)}
  IN  IF hits = {} THEN -1
      ELSE (CHOOSE i \in hits : \A h \in hits : i <= h) - 1

\* the timing loop: targetImageIndex advances while t >= timings[i] and the loop
\* breaks at the first timing in the future (i is 1-based here, the result 0-based)
RECURSIVE ScanTimings(_, _, _, _)
ScanTimings(timings, t, i, target) ==
  IF i > Len(timings) THEN target
  ELSE IF t >= timings[i] THEN ScanTimings(timings, t, i + 1, i - 1)
  ELSE target

\* targetImageIndex without the Math.min
TargetImageIndexUncapped(timings, t, imageCount) == ScanTimings(timings, t, 1, 0)

\* targetImageIndex after Math.min(targetImageIndex, milestone.imageUrls.length - 1)
TargetImageIndex(timings, t, imageCount) ==
  Min(ScanTimings(timings, t, 1, 0), imageCount - 1)

\* const timings = imageTimings.length > 0 ? imageTimings : (milestone.imageTimings || [])
TimingsInUse(milestone) ==
  IF Len(imageTimings) > 0 THEN imageTimings ELSE MilestoneImageTimings(milestone)

\* whether the tick reaches the image switch: alignment present, no override
\* (as the handler closed over it), timings present, more than one image
AutoSwitchApplies(milestone) ==
  /\ Len(wordAlignments) > 0
  /\ ~hOverride
  /\ Len(TimingsInUse(milestone)) > 0
  /\ Len(milestone.imageUrls) > 1

\* the word index with the progress estimate of page_old.tsx as a fallback for
\* audio without alignment: Math.floor(words.length * (currentTime / duration))
WordIndexByProgress(t) ==
  LET idx == FindWordIndex(wordAlignments, t)
      words == SplitWhitespace(lesson[currentMilestone + 1].transcript)
  IN  IF Len(wordAlignments) > 0
      THEN (IF idx >= 0 THEN idx ELSE currentWordIndex)
      ELSE IF duration > 0 THEN (Len(words) * t) \div duration ELSE currentWordIndex

\* the word index the tick leaves: set when an interval holds t, else kept
WordIndexAfterTick(t) ==
  LET idx == FindWordIndex(wordAlignments, t)
  IN  IF Len(wordAlignments) > 0 /\ idx >= 0 THEN idx ELSE currentWordIndex

\* the sentence index the tick leaves
SentenceIndexAfterTick(milestone, t) ==
  LET idx == FindWordIndex(wordAlignments, t)
      i == SentenceIndexFor(splitIntoSentences(milestone.transcript), wordAlignments, idx)
  IN  IF Len(wordAlignments) > 0 /\ idx >= 0 /\ ~showFullText /\ i >= 0
      THEN i ELSE currentSentenceIndex

\* the image index the tick leaves
ImageIndexAfterTick(milestone, t) ==
  IF AutoSwitchApplies(milestone)
  THEN TargetImageIndex(TimingsInUse(milestone), t, Len(milestone.imageUrls))
  ELSE currentImageIndex

\* The effect that registers handleTimeUpdate runs again when one of its
\* dependencies [audioRef.current, wordAlignments, lesson, currentMilestone,
\* currentImageIndex, showFullText, currentSentenceIndex] changed in this render;
\* only then does the handler close over the new manualImageOverride.  The ref
\* is read while rendering, before the commit attaches it.
Rerender(wordsSet) ==
  /\ depAudio' = (audioUrl # 0)
  /\ hOverride' =
       IF \/ wordsSet
          \/ lesson' # lesson
          \/ currentMilestone' # currentMilestone
          \/ currentImageIndex' # currentImageIndex
          \/ currentSentenceIndex' # currentSentenceIndex
          \/ depAudio' # depAudio
       THEN manualImageOverride'
       ELSE hOverride

\* the milestone of the page (lesson.milestones[currentMilestone])
Milestone == lesson[currentMilestone + 1]

\* the transcript the mounted audio was generated for
AudioTranscript == lesson[audioUrl].transcript

\* handleTimeUpdate, the 'timeupdate' listener of the mounted <audio>: the
\* element fires the event periodically while playing, and after a seek or a
\* pause
HandleTimeUpdate ==
  /\ lesson # <<>>
  /\ audioUrl # 0
  /\ audioPlaying \/ tickDue
  /\ tickDue' = FALSE
  /\ currentTime' = audioTime
  /\ currentWordIndex' = WordIndexAfterTick(audioTime)
  /\ currentSentenceIndex' = SentenceIndexAfterTick(Milestone, audioTime)
  /\ currentImageIndex' = ImageIndexAfterTick(Milestone, audioTime)
  /\ lastOp' = "tick"
  /\ UNCHANGED <<lesson, currentMilestone, isPlaying, audioUrl, audioTime, audioPlaying,
                 duration, wordAlignments, imageTimings, manualImageOverride,
                 overrideTimers, navTimers, imageLoads, audioFetches,
                 sinceChange, manualTarget>>
  /\ Rerender(FALSE)
  /\ UNCHANGED <<srvVars, boxVars, quizVars, teachVars>>

---------------------------------------------------------------------------
(* Lesson page: the other handlers and effects.                            *)

RemoveAt(seq, i) == SubSeq(seq, 1, i - 1) \o SubSeq(seq, i + 1, Len(seq))

\* the state left by the "Fetch audio when milestone changes" effect, which
\* runs in the commit that changed currentMilestone or lesson: the resets,
\* the unmounted <audio> (audioUrl is ''), and the request sent for milestone m
MilestoneEffect(m) ==
  /\ audioUrl' = 0
  /\ audioTime' = 0
  /\ audioPlaying' = FALSE
  /\ tickDue' = FALSE
  /\ isPlaying' = FALSE
  /\ currentImageIndex' = 0
  /\ currentSentenceIndex' = 0
  /\ manualImageOverride' = FALSE
  /\ audioFetches' = Append(audioFetches, m)
  /\ sinceChange' = OverrideDelay
  /\ manualTarget' = -1

\* fetch(`/api/generate-lesson?id=...`).then(data => setLesson(data))
LoadLessonOf(lessons) ==
  /\ lesson = <<>>
  /\ lesson' \in lessons
  /\ MilestoneEffect(currentMilestone)
  /\ lastOp' = "other"
  /\ UNCHANGED <<currentMilestone, duration, currentTime, wordAlignments, imageTimings,
                 currentWordIndex, overrideTimers, navTimers, imageLoads>>
  /\ Rerender(FALSE)
  /\ UNCHANGED <<srvVars, boxVars, quizVars, teachVars>>

LoadLesson == LoadLessonOf(Lessons)

\* handlePlayPause, from the play button (disabled while audioUrl is '')
HandlePlayPause ==
  /\ audioUrl # 0
  /\ audioPlaying' = ~isPlaying
  /\ audioTime' = IF ~isPlaying /\ audioTime = AudioDuration(AudioTranscript)
                  THEN 0 ELSE audioTime
  /\ isPlaying' = ~isPlaying
  /\ tickDue' = (tickDue \/ isPlaying \/ audioTime' # audioTime)
  /\ lastOp' = "other"
  /\ UNCHANGED <<lesson, currentMilestone, audioUrl, duration, currentTime, wordAlignments,
                 imageTimings, currentWordIndex, currentImageIndex, currentSentenceIndex,
                 manualImageOverride, overrideTimers, navTimers, imageLoads, audioFetches,
                 sinceChange, manualTarget>>
  /\ Rerender(FALSE)
  /\ UNCHANGED <<srvVars, boxVars, quizVars, teachVars>>

\* handleLoadedMetadata: setDuration(audio.duration)
HandleLoadedMetadata ==
  /\ lesson # <<>>
  /\ audioUrl # 0
  /\ duration # AudioDuration(AudioTranscript)
  /\ duration' = AudioDuration(AudioTranscript)
  /\ lastOp' = "other"
  /\ UNCHANGED <<tickDue, lesson, currentMilestone, isPlaying, audioUrl, audioTime, audioPlaying,
                 currentTime, wordAlignments, imageTimings, currentWordIndex,
                 currentImageIndex, currentSentenceIndex, manualImageOverride,
                 overrideTimers, navTimers, imageLoads, audioFetches,
                 sinceChange, manualTarget>>
  /\ Rerender(FALSE)
  /\ UNCHANGED <<srvVars, boxVars, quizVars, teachVars>>

\* handleSeek: a click on the progress bar at newTime = percentage * duration;
\* the element clamps its currentTime to the length of its own audio
HandleSeek(newTime) ==
  /\ audioUrl # 0
  /\ duration # 0
  /\ audioTime' = Min(newTime, AudioDuration(AudioTranscript))
  /\ currentTime' = newTime
  /\ tickDue' = TRUE
  /\ lastOp' = "seek"
  /\ UNCHANGED <<lesson, currentMilestone, isPlaying, audioUrl, audioPlaying, duration,
                 wordAlignments, imageTimings, currentWordIndex, currentImageIndex,
                 currentSentenceIndex, manualImageOverride, overrideTimers, navTimers,
                 imageLoads, audioFetches, sinceChange, manualTarget>>
  /\ Rerender(FALSE)
  /\ UNCHANGED <<srvVars, boxVars, quizVars, teachVars>>

\* handleEnded, the 'ended' listener
HandleEnded ==
  /\ lesson # <<>>
  /\ audioUrl # 0
  /\ audioPlaying
  /\ audioTime = AudioDuration(AudioTranscript)
  /\ audioPlaying' = FALSE
  /\ isPlaying' = FALSE
  /\ currentWordIndex' = -1
  /\ lastOp' = "other"
  /\ UNCHANGED <<tickDue, lesson, currentMilestone, audioUrl, audioTime, duration, currentTime,
                 wordAlignments, imageTimings, currentImageIndex, currentSentenceIndex,
                 manualImageOverride, overrideTimers, navTimers, imageLoads, audioFetches,
                 sinceChange, manualTarget>>
  /\ Rerender(FALSE)
  /\ UNCHANGED <<srvVars, boxVars, quizVars, teachVars>>

\* handleImageChange(index) past its early returns: the override is set, its
\* timer started and the image preloaded
HandleImageChange(index) ==
  /\ lesson # <<>>
  /\ index # currentImageIndex
  /\ index < Len(Milestone.imageUrls)
  /\ Len(overrideTimers) < MaxTimers
  /\ Len(imageLoads) < MaxLoads
  /\ manualImageOverride' = TRUE
  /\ overrideTimers' = Append(overrideTimers, OverrideDelay)
  /\ imageLoads' = Append(imageLoads, index)
  /\ sinceChange' = 0
  /\ manualTarget' = index
  /\ lastOp' = "image"
  /\ UNCHANGED <<tickDue, lesson, currentMilestone, isPlaying, audioUrl, audioTime, audioPlaying,
                 duration, currentTime, wordAlignments, imageTimings, currentWordIndex,
                 currentImageIndex, currentSentenceIndex, navTimers, audioFetches>>
  /\ Rerender(FALSE)
  /\ UNCHANGED <<srvVars, boxVars, quizVars, teachVars>>

\* img.onload of a pending preload: setCurrentImageIndex(index)
ImageOnLoad(i) ==
  /\ currentImageIndex' = imageLoads[i]
  /\ imageLoads' = RemoveAt(imageLoads, i)
  /\ lastOp' = "other"
  /\ UNCHANGED <<tickDue, lesson, currentMilestone, isPlaying, audioUrl, audioTime, audioPlaying,
                 duration, currentTime, wordAlignments, imageTimings, currentWordIndex,
                 currentSentenceIndex, manualImageOverride, overrideTimers, navTimers,
                 audioFetches, sinceChange, manualTarget>>
  /\ Rerender(FALSE)
  /\ UNCHANGED <<srvVars, boxVars, quizVars, teachVars>>

\* img.onerror of a pending preload
ImageOnError(i) ==
  /\ imageLoads' = RemoveAt(imageLoads, i)
  /\ lastOp' = "other"
  /\ UNCHANGED <<tickDue, lesson, currentMilestone, isPlaying, audioUrl, audioTime, audioPlaying,
                 duration, currentTime, wordAlignments, imageTimings, currentWordIndex,
                 currentImageIndex, currentSentenceIndex, manualImageOverride,
                 overrideTimers, navTimers, audioFetches, sinceChange, manualTarget>>
  /\ Rerender(FALSE)
  /\ UNCHANGED <<srvVars, boxVars, quizVars, teachVars>>

\* the callback of handleImageChange's setTimeout: setManualImageOverride(false)
OverrideTimeout ==
  /\ overrideTimers # <<>>
  /\ Head(overrideTimers) = 0
  /\ manualImageOverride' = FALSE
  /\ overrideTimers' = Tail(overrideTimers)
  /\ lastOp' = "other"
  /\ UNCHANGED <<tickDue, lesson, currentMilestone, isPlaying, audioUrl, audioTime, audioPlaying,
                 duration, currentTime, wordAlignments, imageTimings, currentWordIndex,
                 currentImageIndex, currentSentenceIndex, navTimers, imageLoads,
                 audioFetches, sinceChange, manualTarget>>
  /\ Rerender(FALSE)
  /\ UNCHANGED <<srvVars, boxVars, quizVars, teachVars>>

\* the most section changes and audio requests pending together
MaxNav == 2

\* handleMilestoneChange(index) past its early returns.  The lessons above have
\* one section each, so no index passes them and PageNext leaves the section
\* change and its timer out.
HandleMilestoneChange(index) ==
  /\ lesson # <<>>
  /\ index # currentMilestone
  /\ index >= 0 /\ index < Len(lesson)
  /\ Len(navTimers) + Len(audioFetches) < MaxNav
  /\ audioPlaying' = FALSE
  /\ audioTime' = 0
  /\ tickDue' = (audioUrl # 0)
  /\ isPlaying' = FALSE
  /\ currentWordIndex' = -1
  /\ currentTime' = 0
  /\ navTimers' = Append(navTimers, index)
  /\ lastOp' = "other"
  /\ UNCHANGED <<lesson, currentMilestone, audioUrl, duration, wordAlignments, imageTimings,
                 currentImageIndex, currentSentenceIndex, manualImageOverride,
                 overrideTimers, imageLoads, audioFetches, sinceChange, manualTarget>>
  /\ Rerender(FALSE)
  /\ UNCHANGED <<srvVars, boxVars, quizVars, teachVars>>

\* the callback of handleMilestoneChange's setTimeout: setCurrentMilestone(index),
\* and the milestone effect when the index is a new one
MilestoneTimeout ==
  /\ navTimers # <<>>
  /\ navTimers' = Tail(navTimers)
  /\ currentMilestone' = Head(navTimers)
  /\ IF Head(navTimers) # currentMilestone
     THEN MilestoneEffect(Head(navTimers))
     ELSE UNCHANGED <<audioUrl, audioTime, audioPlaying, tickDue, isPlaying, currentImageIndex,
                      currentSentenceIndex, manualImageOverride, audioFetches, sinceChange,
                      manualTarget>>
  /\ lastOp' = "other"
  /\ UNCHANGED <<lesson, duration, currentTime, wordAlignments, imageTimings,
                 currentWordIndex, overrideTimers, imageLoads>>
  /\ Rerender(FALSE)
  /\ UNCHANGED <<srvVars, boxVars, quizVars, teachVars>>

\* what POST /api/generate-audio answers for milestone m: the audio and its
\* alignment ("ok"), audio whose alignment has no words ("nowords"), or no
\* audio at all, by a failed synthesis or an error body ("failed")
AudioResponses == {"ok", "nowords", "failed"}
ResponseWords(m, outcome) ==
  IF outcome = "ok" THEN ForcedAlignment(lesson[m + 1].transcript) ELSE <<>>
ResponseAudioUrl(m, outcome) == IF outcome = "failed" THEN 0 ELSE m + 1

\* .then(data => { setAudioUrl; setWordAlignments; setImageTimings; ... }) of
\* the pending request i
AudioResponse(i, outcome) ==
  LET m == audioFetches[i] IN
  /\ audioFetches' = RemoveAt(audioFetches, i)
  /\ audioUrl' = ResponseAudioUrl(m, outcome)
  /\ wordAlignments' = ResponseWords(m, outcome)
  /\ imageTimings' = CalcImageTimings(ResponseWords(m, outcome), lesson[m + 1].imageCues)
  /\ IF audioUrl' = audioUrl
     THEN UNCHANGED <<audioTime, audioPlaying, tickDue>>
     ELSE audioTime' = 0 /\ audioPlaying' = FALSE /\ tickDue' = FALSE
  /\ lastOp' = "other"
  /\ UNCHANGED <<lesson, currentMilestone, isPlaying, duration, currentTime,
                 currentWordIndex, currentImageIndex, currentSentenceIndex,
                 manualImageOverride, overrideTimers, navTimers, imageLoads,
                 sinceChange, manualTarget>>
  /\ Rerender(TRUE)
  /\ UNCHANGED <<srvVars, boxVars, quizVars, teachVars>>

\* .catch(err => ...) of a pending request: only loadingAudio changes
AudioFetchError(i) ==
  /\ audioFetches' = RemoveAt(audioFetches, i)
  /\ lastOp' = "other"
  /\ UNCHANGED <<tickDue, lesson, currentMilestone, isPlaying, audioUrl, audioTime, audioPlaying,
                 duration, currentTime, wordAlignments, imageTimings, currentWordIndex,
                 currentImageIndex, currentSentenceIndex, manualImageOverride,
                 overrideTimers, navTimers, imageLoads, sinceChange, manualTarget>>
  /\ Rerender(FALSE)
  /\ UNCHANGED <<srvVars, boxVars, quizVars, teachVars>>

\* one second passes: by then the due callbacks, the 300 ms timers, the queued
\* 'timeupdate' and the 'loadedmetadata' of the data: URL have all been
\* handled; the playing audio advances and queues its next 'timeupdate'
\* (the element fires it at least four times a second while playing)
Elapse ==
  /\ navTimers = <<>>
  /\ ~tickDue
  /\ ~(audioUrl # 0 /\ duration # AudioDuration(AudioTranscript))
  /\ \A i \in 1..Len(overrideTimers) : overrideTimers[i] > 0
  /\ ~(audioUrl # 0 /\ audioPlaying /\ audioTime = AudioDuration(AudioTranscript))
  /\ overrideTimers' = [i \in 1..Len(overrideTimers) |-> overrideTimers[i] - 1]
  /\ audioTime' = IF audioUrl # 0 /\ audioPlaying THEN audioTime + 1 ELSE audioTime
  /\ tickDue' = (audioUrl # 0 /\ audioPlaying)
  /\ sinceChange' = Min(sinceChange + 1, OverrideDelay)
  /\ manualTarget' = IF sinceChange + 1 >= OverrideDelay THEN -1 ELSE manualTarget
  /\ lastOp' = "other"
  /\ UNCHANGED <<lesson, currentMilestone, isPlaying, audioUrl, audioPlaying, duration,
                 currentTime, wordAlignments, imageTimings, currentWordIndex,
                 currentImageIndex, currentSentenceIndex, manualImageOverride, hOverride,
                 depAudio, navTimers, imageLoads, audioFetches>>
  /\ UNCHANGED <<srvVars, boxVars, quizVars, teachVars>>

PageInit ==
  /\ lesson = <<>>
  /\ currentMilestone = 0
  /\ isPlaying = FALSE
  /\ audioUrl = 0
  /\ audioTime = 0
  /\ audioPlaying = FALSE
  /\ tickDue = FALSE
  /\ duration = 0
  /\ currentTime = 0
  /\ wordAlignments = <<>>
  /\ imageTimings = <<>>
  /\ currentWordIndex = -1
  /\ currentImageIndex = 0
  /\ currentSentenceIndex = 0
  /\ manualImageOverride = FALSE
  /\ hOverride = FALSE
  /\ depAudio = FALSE
  /\ overrideTimers = <<>>
  /\ navTimers = <<>>
  /\ imageLoads = <<>>
  /\ audioFetches = <<>>
  /\ sinceChange = OverrideDelay
  /\ manualTarget = -1
  /\ lastOp = "init"

PageNext ==
  \/ LoadLesson
  \/ HandleTimeUpdate
  \/ HandlePlayPause
  \/ HandleLoadedMetadata
  \/ \E newTime \in 0..duration : HandleSeek(newTime)
  \/ HandleEnded
  \/ \E index \in 0..2 : HandleImageChange(index)
  \/ \E i \in 1..Len(imageLoads) : ImageOnLoad(i)
  \/ \E i \in 1..Len(imageLoads) : ImageOnError(i)
  \/ OverrideTimeout
  \/ \E i \in 1..Len(audioFetches), outcome \in AudioResponses : AudioResponse(i, outcome)
  \/ \E i \in 1..Len(audioFetches) : AudioFetchError(i)
  \/ Elapse

BoxIdle ==
  /\ inventory = <<>>
  /\ combineZone = <<>>
  /\ created = <<>>
  /\ lastExplanation = ""
  /\ showCelebration = FALSE
  /\ checkTimers = <<>>
  /\ successTimers = <<>>
  /\ finalTimers = 0
  /\ lastChecked = <<>>
  /\ lastOutcome = 0
  /\ data = [mode |-> "none", targetPiece |-> <<>>, breakdownLevels |-> <<>>]
  /\ currentLevel = 0
  /\ revealed = {}
  /\ afterReset = FALSE

\* the quiz of the page before loadQuiz, with either copy of the route
\* deployed and its cache empty
QuizIdle ==
  /\ showQuiz = FALSE
  /\ loadingQuiz = FALSE
  /\ quizState = <<>>
  /\ completedSections = {}
  /\ highestSection = 0
  /\ lessonComplete = FALSE
  /\ quizFetch = [state |-> "none"]
  /\ quizCache = {}
  /\ quizRoute \in {"app/api/generate-audio/route.ts", "unnamed/part_002"}
  /\ answered = <<>>
  /\ retried = FALSE

\* the same, for the specifications in which no quiz is loaded
QuizUnused == QuizIdle /\ quizRoute = "app/api/generate-audio/route.ts"

\* the teaching challenge before it is mounted
TeachIdle ==
  /\ mounted = FALSE
  /\ messages = <<>>
  /\ currentInput = <<>>
  /\ isThinking = FALSE
  /\ understanding = 0
  /\ isComplete = FALSE
  /\ error = ""
  /\ retryCount = 0
  /\ challengeFetch = [state |-> "none"]
  /\ errorTimers = 0
  /\ kidAudioUrl = <<>>
  /\ voiceFetches = <<>>

\* the lesson page, from its construction on
Init == PageInit /\ SrvIdle /\ BoxIdle /\ QuizUnused /\ TeachIdle
Next == PageNext
Spec == Init /\ [][Next]_vars

---------------------------------------------------------------------------
(* Lesson page: moving between the sections of a lesson of three.          *)

\* a lesson of three sections, with three, two and one image
NavLessons == { <<MilestoneB, MilestoneA, MilestoneC>> }

\* const isLocked = idx > highestSection + 1, of the side panel
isLocked(idx) == idx > highestSection + 1

\* click on section idx of the side panel: !isLocked && handleMilestoneChange(idx)
PanelClick(idx) ==
  /\ lesson # <<>>
  /\ idx \in 0..(Len(lesson) - 1)
  /\ ~isLocked(idx)
  /\ HandleMilestoneChange(idx)

\* the 'Previous milestone' button
PrevButton ==
  /\ lesson # <<>>
  /\ currentMilestone > 0
  /\ HandleMilestoneChange(currentMilestone - 1)

\* the 'Next milestone' button
NextButton ==
  /\ lesson # <<>>
  /\ currentMilestone < Len(lesson) - 1
  /\ HandleMilestoneChange(currentMilestone + 1)

\* handleKeyPress, cases 'ArrowLeft' and 'ArrowRight' (the chat is closed)
HandleKeyPress(key) ==
  /\ lesson # <<>>
  /\ IF key = "ArrowLeft"
     THEN currentMilestone > 0 /\ HandleMilestoneChange(currentMilestone - 1)
     ELSE /\ currentMilestone < Len(lesson) - 1
          /\ HandleMilestoneChange(currentMilestone + 1)

\* the page from its construction on, over the events that take no playing
\* time: the audio stays at its start and the timer of an override pending
NavInit == PageInit /\ SrvIdle /\ BoxIdle /\ QuizUnused /\ TeachIdle
NavNext ==
  \/ LoadLessonOf(NavLessons)
  \/ \E idx \in 0..2 : PanelClick(idx)
  \/ PrevButton
  \/ NextButton
  \/ \E key \in {"ArrowLeft", "ArrowRight"} : HandleKeyPress(key)
  \/ MilestoneTimeout
  \/ \E i \in 1..Len(audioFetches), outcome \in AudioResponses : AudioResponse(i, outcome)
  \/ \E i \in 1..Len(audioFetches) : AudioFetchError(i)
  \/ HandlePlayPause
  \/ HandleLoadedMetadata
  \/ HandleTimeUpdate
  \/ \E index \in 0..2 : HandleImageChange(index)
  \/ \E i \in 1..Len(imageLoads) : ImageOnLoad(i)
  \/ \E i \in 1..Len(imageLoads) : ImageOnError(i)
SpecNav == NavInit /\ [][NavNext]_vars

\* the cue resolver of the generate-audio route, on every alignment and cue list
CuesInit == SrvInit /\ PageInit /\ BoxIdle /\ QuizUnused /\ TeachIdle
CuesNext == SrvGuard \/ SrvCueStep
SpecCues == CuesInit /\ [][CuesNext]_vars

---------------------------------------------------------------------------
(* DragDropSandbox in build mode.  A PuzzlePiece is modelled by its id; its *)
(* label, emoji, colour and description play no part in the handlers.       *)

Piece(id) == [id |-> id]

\* data.startingPieces, data.combinations and the two fixed messages; the
\* second combination takes three pieces, of which the first takes two
startingPieces == <<Piece("fire"), Piece("water"), Piece("earth")>>
combinations ==
  << [pieces |-> <<"fire", "water">>,  result |-> Piece("steam"), explanation |-> "steam!"],
     [pieces |-> <<"water", "earth", "fire">>, result |-> Piece("clay"), explanation |-> "clay!"],
     [pieces |-> <<"steam", "earth">>, result |-> Piece("mud"),   explanation |-> "mud!"] >>
celebrationMessage == "You did it!"
NoCombinationHint == "Hmm, these pieces don't combine. Try different ones!"

MaxInventory == 4
MaxCreated == 2
MaxPending == 1
MaxZone == 3

\* the ids of the data in the order of their UTF-16 code units, which is the
\* order Array.prototype.sort() without a comparator puts strings in
CodeUnitOrder == <<"clay", "earth", "fire", "mud", "steam", "water">>
CodeUnitRank(id) == CHOOSE i \in 1..Len(CodeUnitOrder) : CodeUnitOrder[i] = id

\* insert id into a sorted sequence, after the ids not greater than it
RECURSIVE SortInsert(_, _)
SortInsert(sorted, id) ==
  IF sorted = <<>> THEN <<id>>
  ELSE IF CodeUnitRank(id) < CodeUnitRank(Head(sorted))
       THEN <<id>> \o sorted
       ELSE <<Head(sorted)>> \o SortInsert(Tail(sorted), id)

\* the ids left in the order they came in
KeepOrder(ids) == ids

\* ids.sort()
RECURSIVE SortIds(_)
SortIds(ids) ==
  IF ids = <<>> THEN <<>> ELSE SortInsert(SortIds(Tail(ids)), Head(ids))

\* piecesInZone.map(p => p.id)
PieceIds(pieces) == [i \in 1..Len(pieces) |-> pieces[i].id]

\* a test by inclusion: every id of the combination is among the placed ids
ComboMatchesIncludes(combo, piecesInZone) ==
  \A i \in 1..Len(combo.pieces) :
     \E j \in 1..Len(piecesInZone) : piecesInZone[j].id = combo.pieces[i]

\* the test of one combination in checkCombination
ComboMatches(combo, piecesInZone) ==
  LET pieceIds == SortIds(PieceIds(piecesInZone))
      comboIds == SortIds(combo.pieces)
  IN  /\ Len(comboIds) = Len(pieceIds)
      /\ \A i \in 1..Len(comboIds) : comboIds[i] = pieceIds[i]

\* the combination checkCombination finds for piecesInZone: the index of the
\* first one that matches, 0 when it returns early or none matches
MatchingCombination(piecesInZone) ==
  IF Len(piecesInZone) < 2 THEN 0
  ELSE LET hits == {c \in 1..Len(combinations) : ComboMatches(combinations[c], piecesInZone)}
       IN  IF hits = {} THEN 0 ELSE CHOOSE c \in hits : \A h \in hits : c <= h

\* seq.filter(p => p.id !== id)
RECURSIVE WithoutId(_, _)
WithoutId(seq, id) ==
  IF seq = <<>> THEN <<>>
  ELSE (IF Head(seq).id = id THEN <<>> ELSE <<Head(seq)>>) \o WithoutId(Tail(seq), id)

\* seq.find(p => p.id === id), as the sequence of what it found
FindById(seq, id) ==
  LET hits == {i \in 1..Len(seq) : seq[i].id = id}
  IN  IF hits = {} THEN <<>> ELSE <<seq[CHOOSE i \in hits : \A h \in hits : i <= h]>>

\* combination.pieces.map(pieceId => startingPieces.find(..) || created.find(..)
\* || inventory.find(..)).filter(Boolean) of deconstructPiece
RECURSIVE OriginalPieces(_)
OriginalPieces(pieceIds) ==
  IF pieceIds = <<>> THEN <<>>
  ELSE LET pieceId == Head(pieceIds)
           found == IF FindById(startingPieces, pieceId) # <<>>
                    THEN FindById(startingPieces, pieceId)
                    ELSE IF FindById(created, pieceId) # <<>>
                         THEN FindById(created, pieceId)
                         ELSE FindById(inventory, pieceId)
       IN  found \o OriginalPieces(Tail(pieceIds))

\* the message of deconstructPiece for 0, 1 and 2 pieces given back
DeconstructedMessage ==
  << "Deconstructed back into 0 pieces!",
     "Deconstructed back into 1 pieces!",
     "Deconstructed back into 2 pieces!",
     "Deconstructed back into 3 pieces!" >>

\* drag of the piece at inventory[idx] (1-based here), dropped on the combine zone
DragToCombineZone(idx) ==
  /\ idx \in 1..Len(inventory)
  /\ Len(combineZone) < MaxZone
  /\ Len(checkTimers) + Len(successTimers) + finalTimers < MaxPending
  /\ Len(created) + Len(checkTimers) + Len(successTimers) < MaxCreated
  /\ inventory' = RemoveAt(inventory, idx)
  /\ combineZone' = Append(combineZone, inventory[idx])
  /\ checkTimers' = Append(checkTimers,
                           [pieces |-> Append(combineZone, inventory[idx]), created |-> created])
  /\ UNCHANGED <<created, lastExplanation, showCelebration, successTimers, finalTimers>>
  /\ lastChecked' = <<>>
  /\ lastOutcome' = 0
  /\ afterReset' = FALSE
  /\ UNCHANGED <<data, currentLevel, revealed>>
  /\ UNCHANGED <<srvVars, pageVars, quizVars, teachVars>>

\* drag of the piece at combineZone[idx], dropped on the inventory zone
DragToInventory(idx) ==
  /\ idx \in 1..Len(combineZone)
  /\ combineZone' = RemoveAt(combineZone, idx)
  /\ inventory' = Append(inventory, combineZone[idx])
  /\ UNCHANGED <<created, lastExplanation, showCelebration, checkTimers, successTimers,
                 finalTimers>>
  /\ lastChecked' = <<>>
  /\ lastOutcome' = 0
  /\ afterReset' = FALSE
  /\ UNCHANGED <<data, currentLevel, revealed>>
  /\ UNCHANGED <<srvVars, pageVars, quizVars, teachVars>>

\* a checkCombination that sends the pieces back to the inventory when
\* nothing combines
CheckCombinationBounce ==
  /\ checkTimers # <<>>
  /\ LET timer == Head(checkTimers)
         combo == MatchingCombination(timer.pieces)
     IN  /\ checkTimers' = Tail(checkTimers)
         /\ lastChecked' = timer.pieces
         /\ lastOutcome' = combo
         /\ IF Len(timer.pieces) < 2
            THEN UNCHANGED <<successTimers, lastExplanation, inventory, combineZone>>
            ELSE IF combo > 0
                 THEN /\ successTimers' = Append(successTimers,
                                                 [combo |-> combo, created |-> timer.created])
                      /\ UNCHANGED <<lastExplanation, inventory, combineZone>>
                 ELSE /\ lastExplanation' = NoCombinationHint
                      /\ inventory' = inventory \o combineZone
                      /\ combineZone' = <<>>
                      /\ UNCHANGED successTimers
  /\ UNCHANGED <<created, showCelebration, finalTimers>>
  /\ UNCHANGED <<data, currentLevel, revealed, afterReset>>
  /\ UNCHANGED <<srvVars, pageVars, quizVars, teachVars>>

\* the 100 ms timer of handleDragEnd fires: checkCombination(piecesInZone)
CheckCombination ==
  /\ checkTimers # <<>>
  /\ LET timer == Head(checkTimers)
         combo == MatchingCombination(timer.pieces)
     IN  /\ checkTimers' = Tail(checkTimers)
         /\ lastChecked' = timer.pieces
         /\ lastOutcome' = combo
         /\ IF Len(timer.pieces) < 2
            THEN UNCHANGED <<successTimers, lastExplanation>>
            ELSE IF combo > 0
                 THEN /\ successTimers' = Append(successTimers,
                                                 [combo |-> combo, created |-> timer.created])
                      /\ UNCHANGED lastExplanation
                 ELSE /\ lastExplanation' = NoCombinationHint
                      /\ UNCHANGED successTimers
  /\ UNCHANGED <<inventory, combineZone, created, showCelebration, finalTimers>>
  /\ UNCHANGED <<data, currentLevel, revealed, afterReset>>
  /\ UNCHANGED <<srvVars, pageVars, quizVars, teachVars>>

\* the 300 ms timer of a match fires
CombinationSuccess ==
  /\ successTimers # <<>>
  /\ LET timer == Head(successTimers)
         combo == combinations[timer.combo]
         newPiece == combo.result
         createdIds == Append(PieceIds(timer.created), newPiece.id)
         finalResult == combinations[Len(combinations)].result.id
     IN  /\ successTimers' = Tail(successTimers)
         /\ combineZone' = <<>>
         /\ created' = Append(created, newPiece)
         /\ inventory' = Append(inventory, newPiece)
         /\ lastExplanation' = combo.explanation
         /\ showCelebration' = TRUE
         /\ finalTimers' = IF \E i \in 1..Len(createdIds) : createdIds[i] = finalResult
                           THEN finalTimers + 1 ELSE finalTimers
  /\ UNCHANGED <<checkTimers>>
  /\ lastChecked' = <<>>
  /\ lastOutcome' = 0
  /\ UNCHANGED <<data, currentLevel, revealed, afterReset>>
  /\ UNCHANGED <<srvVars, pageVars, quizVars, teachVars>>

\* the 500 ms timer of the final celebration fires
FinalCelebration ==
  /\ finalTimers > 0
  /\ finalTimers' = finalTimers - 1
  /\ showCelebration' = TRUE
  /\ lastExplanation' = celebrationMessage
  /\ UNCHANGED <<inventory, combineZone, created, checkTimers, successTimers>>
  /\ lastChecked' = <<>>
  /\ lastOutcome' = 0
  /\ UNCHANGED <<data, currentLevel, revealed, afterReset>>
  /\ UNCHANGED <<srvVars, pageVars, quizVars, teachVars>>

\* click on created[idx]: deconstructPiece(createdPiece)
DeconstructPiece(idx) ==
  /\ idx \in 1..Len(created)
  /\ LET createdPiece == created[idx]
         hits == {c \in 1..Len(combinations) : combinations[c].result.id = createdPiece.id}
     IN  /\ hits # {}
         /\ LET combination == combinations[CHOOSE c \in hits : \A h \in hits : c <= h]
                originalPieces == OriginalPieces(combination.pieces)
            IN  /\ Len(WithoutId(inventory, createdPiece.id)) + Len(originalPieces)
                     + Len(WithoutId(combineZone, createdPiece.id)) <= MaxInventory
                /\ created' = WithoutId(created, createdPiece.id)
                /\ inventory' = WithoutId(inventory, createdPiece.id) \o originalPieces
                /\ combineZone' = WithoutId(combineZone, createdPiece.id)
                /\ lastExplanation' = DeconstructedMessage[Len(originalPieces) + 1]
  /\ UNCHANGED <<showCelebration, checkTimers, successTimers, finalTimers>>
  /\ lastChecked' = <<>>
  /\ lastOutcome' = 0
  /\ afterReset' = FALSE
  /\ UNCHANGED <<data, currentLevel, revealed>>
  /\ UNCHANGED <<srvVars, pageVars, quizVars, teachVars>>

\* the data prop of a build-mode sandbox (its pieces and combinations are the
\* definitions above) and of a breakdown-mode sandbox with these levels
BuildData == [mode |-> "build", targetPiece |-> <<>>, breakdownLevels |-> <<>>]
BreakdownData(levels) ==
  [mode |-> "breakdown", targetPiece |-> <<Piece("whole")>>, breakdownLevels |-> levels]

\* what resetSandbox puts in the inventory
ResetInventory ==
  IF data.mode = "build" THEN startingPieces
  ELSE IF data.mode = "breakdown" /\ data.targetPiece # <<>> THEN data.targetPiece
  ELSE inventory

resetSandbox ==
  /\ inventory' = ResetInventory
  /\ combineZone' = <<>>
  /\ created' = <<>>
  /\ currentLevel' = 0
  /\ lastExplanation' = ""
  /\ showCelebration' = FALSE
  /\ UNCHANGED <<checkTimers, successTimers, finalTimers>>
  /\ lastChecked' = <<>>
  /\ lastOutcome' = 0
  /\ revealed' = {}
  /\ afterReset' = TRUE
  /\ UNCHANGED data
  /\ UNCHANGED <<srvVars, pageVars, quizVars, teachVars>>

\* the sandbox after its "Initialize based on mode" effect, in build mode
BoxInit ==
  /\ inventory = startingPieces
  /\ combineZone = <<>>
  /\ created = <<>>
  /\ lastExplanation = ""
  /\ showCelebration = FALSE
  /\ checkTimers = <<>>
  /\ successTimers = <<>>
  /\ finalTimers = 0
  /\ lastChecked = <<>>
  /\ lastOutcome = 0
  /\ data = BuildData
  /\ currentLevel = 0
  /\ revealed = {}
  /\ afterReset = FALSE

SandboxInit == BoxInit /\ PageInit /\ SrvIdle /\ QuizUnused /\ TeachIdle
SandboxNext ==
  \/ \E idx \in 1..MaxInventory : DragToCombineZone(idx)
  \/ \E idx \in 1..MaxInventory : DragToInventory(idx)
  \/ CheckCombination
  \/ CombinationSuccess
  \/ FinalCelebration
  \/ \E idx \in 1..MaxInventory : DeconstructPiece(idx)
  \/ resetSandbox
SpecSandbox == SandboxInit /\ [][SandboxNext]_vars

---------------------------------------------------------------------------
(* DragDropSandbox in breakdown mode.                                      *)

\* the most levels of a breakdown in the model
MaxLevels == 5

\* breakdownLevels as the route may deliver them: a non-empty list of levels
AllLevels ==
  << <<Piece("part1"), Piece("part2")>>,
     <<Piece("detail1"), Piece("detail2"), Piece("detail3")>>,
     <<Piece("cell1"), Piece("cell2")>>,
     <<Piece("atom1"), Piece("atom2"), Piece("atom3")>>,
     <<Piece("quark1"), Piece("quark2")>>,
     <<Piece("string1"), Piece("string2")>> >>
BreakdownLevels == {SubSeq(AllLevels, 1, n) : n \in 1..MaxLevels}

BreakingDownMessage == "Breaking down into smaller parts!"

\* the position in breakdownLevels (1-based here) of the level handleBreakdown
\* puts into the inventory: data.breakdownLevels[nextLevel]
LevelToReveal(nextLevel) == nextLevel + 1

\* click on inventory[idx] in breakdown mode: handleBreakdown(piece)
HandleBreakdown(idx) ==
  /\ data.mode = "breakdown"
  /\ idx \in 1..Len(inventory)
  /\ LET piece == inventory[idx]
         nextLevel == currentLevel + 1
     IN  IF nextLevel >= Len(data.breakdownLevels)
         THEN /\ showCelebration' = TRUE
              /\ lastExplanation' = celebrationMessage
              /\ UNCHANGED <<inventory, currentLevel, revealed>>
         ELSE /\ inventory' = WithoutId(inventory, piece.id)
                                \o data.breakdownLevels[LevelToReveal(nextLevel)]
              /\ currentLevel' = nextLevel
              /\ lastExplanation' = BreakingDownMessage
              /\ revealed' = revealed \cup {LevelToReveal(nextLevel)}
              /\ UNCHANGED showCelebration
  /\ afterReset' = FALSE
  /\ UNCHANGED <<combineZone, created, checkTimers, successTimers, finalTimers, lastChecked,
                 lastOutcome, data>>
  /\ UNCHANGED <<srvVars, pageVars, quizVars, teachVars>>

\* the close button of the celebration overlay: setShowCelebration(false)
DismissCelebration ==
  /\ showCelebration
  /\ showCelebration' = FALSE
  /\ UNCHANGED <<inventory, combineZone, created, lastExplanation, checkTimers, successTimers,
                 finalTimers, lastChecked, lastOutcome, data, currentLevel, revealed,
                 afterReset>>
  /\ UNCHANGED <<srvVars, pageVars, quizVars, teachVars>>

\* the sandbox after its "Initialize based on mode" effect, in breakdown mode
BreakdownInit ==
  /\ data \in {BreakdownData(levels) : levels \in BreakdownLevels}
  /\ inventory = data.targetPiece
  /\ combineZone = <<>>
  /\ created = <<>>
  /\ lastExplanation = ""
  /\ showCelebration = FALSE
  /\ checkTimers = <<>>
  /\ successTimers = <<>>
  /\ finalTimers = 0
  /\ lastChecked = <<>>
  /\ lastOutcome = 0
  /\ currentLevel = 0
  /\ revealed = {}
  /\ afterReset = FALSE
  /\ PageInit /\ SrvIdle /\ QuizUnused /\ TeachIdle
BreakdownNext ==
  \/ \E idx \in 1..(3 * MaxLevels) : HandleBreakdown(idx)
  \/ DismissCelebration
  \/ resetSandbox
SpecBreakdown == BreakdownInit /\ [][BreakdownNext]_vars

---------------------------------------------------------------------------
(* The quiz: POST /api/generate-quiz and the quiz handlers of the page.     *)
(* A question is modelled by what the route validates and the page reads:  *)
(* question and explanation (present or not), options (their number, -1    *)
(* when not an array), correctIndex and whether it is a number.            *)

Question(options, correctIsNumber, correctIndex) ==
  [question |-> TRUE, options |-> options, correctIsNumber |-> correctIsNumber,
   correctIndex |-> correctIndex, explanation |-> TRUE]

\* a JavaScript value that is an array, or undefined
JsArray(items) == [kind |-> "array", items |-> items]
JsUndefined == [kind |-> "undefined", items |-> <<>>]

\* what the model's generateContent call may produce: a throw, no text, text
\* that is not JSON, JSON without a questions array, and question lists
GeneratorOutput(throws, text, hasQuestions, questions) ==
  [throws |-> throws, text |-> text, hasQuestions |-> hasQuestions, questions |-> questions]

GeneratorOutputs ==
  { GeneratorOutput(TRUE, "", FALSE, <<>>),
    GeneratorOutput(FALSE, "", FALSE, <<>>),
    GeneratorOutput(FALSE, "garbage", FALSE, <<>>),
    GeneratorOutput(FALSE, "json", FALSE, <<>>),
    GeneratorOutput(FALSE, "json", TRUE, <<>>),
    GeneratorOutput(FALSE, "json", TRUE, <<Question(4, TRUE, 1), Question(4, TRUE, 0)>>),
    GeneratorOutput(FALSE, "json", TRUE, <<Question(4, TRUE, 1), Question(3, TRUE, 0)>>),
    GeneratorOutput(FALSE, "json", TRUE, <<Question(4, FALSE, 1)>>),
    GeneratorOutput(FALSE, "json", TRUE, <<Question(4, TRUE, 7)>>) }

\* the shortest transcript the route in route.ts accepts: 50 characters in
\* the source, 8 at the scale of the model's transcripts (7 and 9 characters)
MinTranscriptLength == 8

\* the copy of the route in route.ts, which checks more than the other
StrictRoute == quizRoute = "app/api/generate-audio/route.ts"

\* the per-question test of the validation loop
ValidQuestion(q) ==
  q.question /\ q.options = 4 /\ q.correctIsNumber /\ q.explanation

\* the bounds test of route.ts: 0 <= correctIndex < 4
CorrectIndexInBounds(q) == q.correctIndex >= 0 /\ q.correctIndex < 4

\* whether the route accepts what the generator produced
GeneratedQuizAccepted(g) ==
  /\ ~g.throws
  /\ g.text = "json"
  /\ g.hasQuestions
  /\ StrictRoute => Len(g.questions) # 0
  /\ \A i \in 1..Len(g.questions) : ValidQuestion(g.questions[i])
  /\ StrictRoute => \A i \in 1..Len(g.questions) : CorrectIndexInBounds(g.questions[i])

\* the bodies of the route's responses: { questions } or { error }
QuizResult(questions) == [status |-> 200, questions |-> JsArray(questions)]
QuizError(status) == [status |-> status, questions |-> JsUndefined]

\* cacheKey: sectionId and the head of the transcript
CacheKey(section, transcript) == <<section, transcript>>

\* quizCache.has(key) and quizCache.get(key)
CacheHas(key) == \E e \in quizCache : e.key = key
CacheGet(key) == (CHOOSE e \in quizCache : e.key = key).result

\* quizCache.set(key, result)
CacheSet(key, result) ==
  {e \in quizCache : e.key # key} \cup {[key |-> key, result |-> result]}

\* loadQuiz up to its await: the 'Take Quiz' buttons are rendered while the
\* quiz is closed
LoadQuiz ==
  /\ lesson # <<>>
  /\ ~showQuiz
  /\ quizFetch.state = "none"
  /\ loadingQuiz' = TRUE
  /\ showQuiz' = TRUE
  /\ quizFetch' = [state |-> "sent", section |-> currentMilestone,
                   transcript |-> Milestone.transcript]
  /\ UNCHANGED <<quizState, completedSections, highestSection, lessonComplete, quizCache,
                 quizRoute, answered, retried>>
  /\ UNCHANGED <<srvVars, pageVars, boxVars, teachVars>>

\* POST of the generate-quiz route on the request in flight, g being what the
\* generator produces if it is asked
QuizPOST(g) ==
  /\ quizFetch.state = "sent"
  /\ LET key == CacheKey(quizFetch.section, quizFetch.transcript)
         tooShort == StrictRoute /\ Len(quizFetch.transcript) < MinTranscriptLength
     IN  IF tooShort
         THEN /\ quizFetch' = [state |-> "replied", data |-> QuizError(400)]
              /\ UNCHANGED quizCache
         ELSE IF CacheHas(key)
         THEN /\ quizFetch' = [state |-> "replied", data |-> CacheGet(key)]
              /\ UNCHANGED quizCache
         ELSE IF GeneratedQuizAccepted(g)
         THEN /\ quizFetch' = [state |-> "replied", data |-> QuizResult(g.questions)]
              /\ quizCache' = CacheSet(key, QuizResult(g.questions))
         ELSE /\ quizFetch' = [state |-> "replied", data |-> QuizError(500)]
              /\ UNCHANGED quizCache
  /\ UNCHANGED <<showQuiz, loadingQuiz, quizState, completedSections, highestSection,
                 lessonComplete, quizRoute, answered, retried>>
  /\ UNCHANGED <<srvVars, pageVars, boxVars, teachVars>>

\* the state loadQuiz sets from the response body
LoadedQuizState(body) ==
  [questions |-> body.questions, currentQuestion |-> 0, selectedAnswer |-> -1,
   showExplanation |-> FALSE, score |-> 0, isComplete |-> FALSE]

\* loadQuiz after its awaits: setQuizState from the body, whatever its status
QuizLoaded ==
  /\ quizFetch.state = "replied"
  /\ quizState' = <<LoadedQuizState(quizFetch.data)>>
  /\ answered' = <<>>
  /\ retried' = FALSE
  /\ loadingQuiz' = FALSE
  /\ quizFetch' = [state |-> "none"]
  /\ UNCHANGED <<showQuiz, completedSections, highestSection, lessonComplete, quizCache,
                 quizRoute>>
  /\ UNCHANGED <<srvVars, pageVars, boxVars, teachVars>>

\* loadQuiz when fetch rejects: the catch closes the quiz
QuizFetchFailed ==
  /\ quizFetch.state = "sent"
  /\ showQuiz' = FALSE
  /\ loadingQuiz' = FALSE
  /\ quizFetch' = [state |-> "none"]
  /\ UNCHANGED <<quizState, completedSections, highestSection, lessonComplete, quizCache,
                 quizRoute, answered, retried>>
  /\ UNCHANGED <<srvVars, pageVars, boxVars, teachVars>>

\* the QuizState of a quiz that is not null
Quiz == quizState[1]

\* the question view renders: the quiz is open and loaded, not complete, and
\* quizState.questions[quizState.currentQuestion] can be read
QuestionShown ==
  /\ showQuiz /\ ~loadingQuiz
  /\ quizState # <<>>
  /\ ~Quiz.isComplete
  /\ Quiz.questions.kind = "array"
  /\ Quiz.currentQuestion < Len(Quiz.questions.items)

\* the results view renders
ResultsShown == showQuiz /\ ~loadingQuiz /\ quizState # <<>> /\ Quiz.isComplete

\* quizState.questions[quizState.currentQuestion]
CurrentQuestion == Quiz.questions.items[Quiz.currentQuestion + 1]

\* an answer is recorded by handleQuizAnswer even while the explanation shows
AnswerNeverIgnored(state) == FALSE

\* the early return of handleQuizAnswer
AnswerIgnored(state) == state.showExplanation

\* answerIndex === correctIndex
AnswerIsCorrect(q, answerIndex) == q.correctIsNumber /\ answerIndex = q.correctIndex

\* handleQuizAnswer(answerIndex), from an option button of the question view
HandleQuizAnswer(answerIndex) ==
  /\ QuestionShown
  /\ answerIndex < CurrentQuestion.options
  /\ IF AnswerIgnored(Quiz)
     THEN UNCHANGED <<quizState, answered>>
     ELSE /\ quizState' =
               <<[Quiz EXCEPT !.selectedAnswer = answerIndex,
                              !.showExplanation = TRUE,
                              !.score = @ + (IF AnswerIsCorrect(CurrentQuestion, answerIndex)
                                             THEN 1 ELSE 0)]>>
          /\ answered' = Append(answered, answerIndex)
  /\ UNCHANGED <<showQuiz, loadingQuiz, completedSections, highestSection, lessonComplete,
                 quizFetch, quizCache, quizRoute, retried>>
  /\ UNCHANGED <<srvVars, pageVars, boxVars, teachVars>>

\* handleNextQuestion, from the button under the explanation
HandleNextQuestion ==
  /\ QuestionShown
  /\ Quiz.showExplanation
  /\ LET nextQuestion == Quiz.currentQuestion + 1
     IN  IF nextQuestion >= Len(Quiz.questions.items)
         THEN quizState' = <<[Quiz EXCEPT !.isComplete = TRUE]>>
         ELSE quizState' = <<[Quiz EXCEPT !.currentQuestion = nextQuestion,
                                          !.selectedAnswer = -1,
                                          !.showExplanation = FALSE]>>
  /\ UNCHANGED <<showQuiz, loadingQuiz, completedSections, highestSection, lessonComplete,
                 quizFetch, quizCache, quizRoute, answered, retried>>
  /\ UNCHANGED <<srvVars, pageVars, boxVars, teachVars>>

\* a retry that keeps the score of the attempt before
RetryStateKeepScore(state) ==
  [state EXCEPT !.currentQuestion = 0, !.selectedAnswer = -1, !.showExplanation = FALSE,
                !.isComplete = FALSE]

\* the state handleRetryQuiz sets
RetryState(state) ==
  [state EXCEPT !.currentQuestion = 0, !.selectedAnswer = -1, !.showExplanation = FALSE,
                !.score = 0, !.isComplete = FALSE]

\* handleRetryQuiz, from the results view of a score under 75 %
HandleRetryQuiz ==
  /\ ResultsShown
  /\ Quiz.score * 100 < 75 * Len(Quiz.questions.items)
  /\ quizState' = <<RetryState(Quiz)>>
  /\ answered' = <<>>
  /\ retried' = TRUE
  /\ UNCHANGED <<showQuiz, loadingQuiz, completedSections, highestSection, lessonComplete,
                 quizFetch, quizCache, quizRoute>>
  /\ UNCHANGED <<srvVars, pageVars, boxVars, teachVars>>

\* completeQuizAndAdvance, from the results view.  The lessons have one
\* section each, so the section is the last one and 'Next Section' is not
\* rendered.
CompleteQuizAndAdvance ==
  /\ ResultsShown
  /\ completedSections' = completedSections \cup {currentMilestone}
  /\ highestSection' = IF currentMilestone > highestSection THEN currentMilestone
                       ELSE highestSection
  /\ showQuiz' = FALSE
  /\ quizState' = <<>>
  /\ lessonComplete' = IF currentMilestone = Len(lesson) - 1 THEN TRUE ELSE lessonComplete
  /\ UNCHANGED <<loadingQuiz, quizFetch, quizCache, quizRoute, answered, retried>>
  /\ UNCHANGED <<srvVars, pageVars, boxVars, teachVars>>

\* the quiz of a lesson page, from the page's construction on
QuizInit == PageInit /\ SrvIdle /\ BoxIdle /\ QuizIdle /\ TeachIdle
QuizNext ==
  \/ LoadLesson
  \/ LoadQuiz
  \/ \E g \in GeneratorOutputs : QuizPOST(g)
  \/ QuizLoaded
  \/ QuizFetchFailed
  \/ \E answerIndex \in 0..3 : HandleQuizAnswer(answerIndex)
  \/ HandleNextQuestion
  \/ HandleRetryQuiz
  \/ CompleteQuizAndAdvance
SpecQuiz == QuizInit /\ [][QuizNext]_vars

---------------------------------------------------------------------------
(* The teaching challenge: the TeachingChallenge component and the respond  *)
(* and start branches of POST /api/teaching-challenge.                      *)

maxUnderstanding == 7
MAX_RETRIES == 3

\* bounds on what is pending and on the length of a conversation
MaxMessages == 7
MaxErrorTimers == 1
MaxVoice == 1

Max(a, b) == IF a >= b THEN a ELSE b

\* a Message of the conversation; reaction "" is none
Message(role, content, reaction) == [role |-> role, content |-> content, reaction |-> reaction]

\* the texts of the component and of the route
FallbackQuestion == <<"W", "h", "a", "t", "?">>
CannedKidMessage == <<"H", "m", "m", ",">>
StillConfused == <<"H", "m", "m", ".">>
InputTooShort == "Please provide a more detailed explanation"
ErrorTimedOut == "Request timed out. Please try again."
ErrorFromServer == "Failed to generate response"
ErrorInvalid == "Invalid response from server"

\* what the teacher may type
Inputs == { <<" ">>, <<"a", "x", "o", "n">>, <<" ", "c", "e", "l", "l", "s", " ">> }

\* what the evaluator's text may hold: score is the number after
\* UNDERSTANDING: (-1 when the tag is absent), reaction the word after
\* REACTION: ("" when absent), response the text after RESPONSE: (<<>> when
\* the tag is absent); throws when generateContent throws
EvaluatorOutput(throws, score, reaction, response) ==
  [throws |-> throws, score |-> score, reaction |-> reaction, response |-> response]

EvaluatorOutputs ==
  { EvaluatorOutput(TRUE, -1, "", <<>>),
    EvaluatorOutput(FALSE, -1, "", <<>>),
    EvaluatorOutput(FALSE, 0, "confused", <<"O", "h", "?">>),
    EvaluatorOutput(FALSE, 3, "", <<"O", "h", "?">>),
    EvaluatorOutput(FALSE, 7, "skeptical", <<"\"", "\"">>),
    EvaluatorOutput(FALSE, 10, "understanding", <<"O", "h", "!">>),
    EvaluatorOutput(FALSE, 14, "surprised", <<"\"", "O", "h", "!", "\"", " ">>) }

\* replace(/"/g, '')
RECURSIVE StripQuotes(_)
StripQuotes(s) ==
  IF s = <<>> THEN <<>>
  ELSE (IF Head(s) = "\"" THEN <<>> ELSE <<Head(s)>>) \o StripQuotes(Tail(s))

\* understandingScore of the respond branch
UnderstandingScore(e) == IF e.score >= 0 THEN Min(10, Max(0, e.score)) ELSE 5

\* kidResponse of the respond branch
KidResponse(e) == IF e.response # <<>> THEN StripQuotes(Trim(e.response)) ELSE StillConfused

\* the body of the respond branch's reply
RespondBody(e) ==
  IF e.throws
  THEN [ok |-> FALSE, response |-> <<>>, understanding |-> 0, reaction |-> ""]
  ELSE [ok |-> TRUE, response |-> KidResponse(e), understanding |-> UnderstandingScore(e),
        reaction |-> IF e.reaction # "" THEN e.reaction ELSE "confused"]

\* the body of the start branch's reply: { question } or { error }
StartBody(ok) ==
  [ok |-> ok, response |-> IF ok THEN <<"W", "h", "y", "?">> ELSE <<>>, understanding |-> 0,
   reaction |-> ""]

\* generateAudio(text) up to its fetch
GenerateAudio(text) == voiceFetches' = Append(voiceFetches, text)

\* the component mounts: useEffect(() => startChallenge(), [])
Mount ==
  /\ ~mounted
  /\ mounted' = TRUE
  /\ messages' = <<>>
  /\ understanding' = 0
  /\ isComplete' = FALSE
  /\ currentInput' = <<>>
  /\ error' = ""
  /\ retryCount' = 0
  /\ isThinking' = TRUE
  /\ challengeFetch' = [state |-> "sent", action |-> "start"]
  /\ UNCHANGED <<errorTimers, kidAudioUrl, voiceFetches>>
  /\ UNCHANGED <<srvVars, pageVars, boxVars, quizVars>>

\* startChallenge up to its fetch, from 'Try Again' of the completion view
StartChallenge ==
  /\ mounted
  /\ isComplete
  /\ challengeFetch.state = "none"
  /\ messages' = <<>>
  /\ understanding' = 0
  /\ isComplete' = FALSE
  /\ currentInput' = <<>>
  /\ error' = ""
  /\ retryCount' = 0
  /\ isThinking' = TRUE
  /\ challengeFetch' = [state |-> "sent", action |-> "start"]
  /\ UNCHANGED <<mounted, errorTimers, kidAudioUrl, voiceFetches>>
  /\ UNCHANGED <<srvVars, pageVars, boxVars, quizVars>>

\* POST of the teaching-challenge route on the request in flight: the start
\* branch with or without a question, the respond branch on the evaluator's text
TeachingPOST(e, ok) ==
  /\ challengeFetch.state = "sent"
  /\ challengeFetch' =
       [state |-> "replied", action |-> challengeFetch.action,
        body |-> IF challengeFetch.action = "start" THEN StartBody(ok) ELSE RespondBody(e)]
  /\ UNCHANGED <<mounted, messages, currentInput, isThinking, understanding, isComplete, error,
                 retryCount, errorTimers, kidAudioUrl, voiceFetches>>
  /\ UNCHANGED <<srvVars, pageVars, boxVars, quizVars>>

\* startChallenge after its awaits: the kid's question, or on any failure the
\* default question with an error text
StartReplied(timedOut) ==
  /\ challengeFetch.state = (IF timedOut THEN "sent" ELSE "replied")
  /\ challengeFetch.action = "start"
  /\ IF ~timedOut /\ challengeFetch.body.ok /\ challengeFetch.body.response # <<>>
     THEN /\ messages' = <<Message("kid", challengeFetch.body.response, "confused")>>
          /\ GenerateAudio(challengeFetch.body.response)
          /\ UNCHANGED error
     ELSE /\ error' = IF timedOut THEN ErrorTimedOut ELSE ErrorFromServer
          /\ messages' = <<Message("kid", FallbackQuestion, "confused")>>
          /\ UNCHANGED voiceFetches
  /\ isThinking' = FALSE
  /\ challengeFetch' = [state |-> "none"]
  /\ UNCHANGED <<mounted, currentInput, understanding, isComplete, retryCount, errorTimers,
                 kidAudioUrl>>
  /\ UNCHANGED <<srvVars, pageVars, boxVars, quizVars>>

\* onChange of the textarea, which is disabled while thinking
TypeInput(text) ==
  /\ mounted /\ ~isComplete /\ ~isThinking
  /\ currentInput' = text
  /\ UNCHANGED <<mounted, messages, isThinking, understanding, isComplete, error, retryCount,
                 challengeFetch, errorTimers, kidAudioUrl, voiceFetches>>
  /\ UNCHANGED <<srvVars, pageVars, boxVars, quizVars>>

\* handleSubmit up to its fetch
HandleSubmit ==
  /\ mounted /\ ~isComplete
  /\ Trim(currentInput) # <<>>
  /\ ~isThinking
  /\ Len(messages) < MaxMessages
  /\ errorTimers < MaxErrorTimers
  /\ Len(voiceFetches) < MaxVoice
  /\ IF Len(Trim(currentInput)) < 5
     THEN /\ error' = InputTooShort
          /\ UNCHANGED <<messages, currentInput, isThinking, challengeFetch>>
     ELSE /\ messages' = Append(messages, Message("teacher", Trim(currentInput), ""))
          /\ currentInput' = <<>>
          /\ error' = ""
          /\ isThinking' = TRUE
          /\ challengeFetch' = [state |-> "sent", action |-> "respond"]
  /\ UNCHANGED <<mounted, understanding, isComplete, retryCount, errorTimers, kidAudioUrl,
                 voiceFetches>>
  /\ UNCHANGED <<srvVars, pageVars, boxVars, quizVars>>

\* pointsEarned
PointsEarned(body) == body.understanding \div 2

\* an understanding that is not capped
NewUnderstandingUncapped(current, points) == current + points

\* newUnderstanding
NewUnderstanding(current, points) == Min(current + points, maxUnderstanding)

\* handleSubmit after its awaits, when the reply is accepted
RespondSucceeded ==
  /\ challengeFetch.state = "replied"
  /\ challengeFetch.action = "respond"
  /\ challengeFetch.body.ok
  /\ challengeFetch.body.response # <<>>
  /\ LET body == challengeFetch.body
         newUnderstanding == NewUnderstanding(understanding, PointsEarned(body))
     IN  /\ understanding' = newUnderstanding
         /\ IF newUnderstanding >= maxUnderstanding
            THEN /\ isComplete' = TRUE
                 /\ messages' = Append(messages, Message("kid", body.response, "understanding"))
            ELSE /\ messages' = Append(messages, Message("kid", body.response, body.reaction))
                 /\ UNCHANGED isComplete
         /\ GenerateAudio(body.response)
  /\ retryCount' = 0
  /\ isThinking' = FALSE
  /\ challengeFetch' = [state |-> "none"]
  /\ UNCHANGED <<mounted, currentInput, error, errorTimers, kidAudioUrl>>
  /\ UNCHANGED <<srvVars, pageVars, boxVars, quizVars>>

\* every failure is retried, none answered by the canned message
RetryAlways(count) == TRUE

\* retryCount < MAX_RETRIES
RetryAllowed(count) == count < MAX_RETRIES

\* handleSubmit after its awaits, when the request timed out, the reply is an
\* error, or its body has no response: the catch and the finally
RespondFailed(timedOut) ==
  /\ challengeFetch.state = (IF timedOut THEN "sent" ELSE "replied")
  /\ challengeFetch.action = "respond"
  /\ IF timedOut THEN TRUE
     ELSE IF challengeFetch.body.ok THEN challengeFetch.body.response = <<>> ELSE TRUE
  /\ error' = IF timedOut THEN ErrorTimedOut
              ELSE IF ~challengeFetch.body.ok THEN ErrorFromServer ELSE ErrorInvalid
  /\ IF RetryAllowed(retryCount)
     THEN /\ retryCount' = retryCount + 1
          /\ errorTimers' = errorTimers + 1
          /\ UNCHANGED messages
     ELSE /\ messages' = Append(messages, Message("kid", CannedKidMessage, "confused"))
          /\ retryCount' = 0
          /\ UNCHANGED errorTimers
  /\ isThinking' = FALSE
  /\ challengeFetch' = [state |-> "none"]
  /\ UNCHANGED <<mounted, currentInput, understanding, isComplete, kidAudioUrl, voiceFetches>>
  /\ UNCHANGED <<srvVars, pageVars, boxVars, quizVars>>

\* the callback of the retry branch's setTimeout: setError(null)
ErrorTimeout ==
  /\ errorTimers > 0
  /\ errorTimers' = errorTimers - 1
  /\ error' = ""
  /\ UNCHANGED <<mounted, messages, currentInput, isThinking, understanding, isComplete,
                 retryCount, challengeFetch, kidAudioUrl, voiceFetches>>
  /\ UNCHANGED <<srvVars, pageVars, boxVars, quizVars>>

\* generateAudio after its awaits: setAudioUrl when the body has an audioUrl
VoiceReplied(hasUrl) ==
  /\ voiceFetches # <<>>
  /\ voiceFetches' = Tail(voiceFetches)
  /\ kidAudioUrl' = IF hasUrl THEN Head(voiceFetches) ELSE kidAudioUrl
  /\ UNCHANGED <<mounted, messages, currentInput, isThinking, understanding, isComplete, error,
                 retryCount, challengeFetch, errorTimers>>
  /\ UNCHANGED <<srvVars, pageVars, boxVars, quizVars>>

\* a teaching challenge, from before its mount on
TeachInit == PageInit /\ SrvIdle /\ BoxIdle /\ QuizUnused /\ TeachIdle
TeachNext ==
  \/ Mount
  \/ StartChallenge
  \/ \E e \in EvaluatorOutputs, ok \in BOOLEAN : TeachingPOST(e, ok)
  \/ \E timedOut \in BOOLEAN : StartReplied(timedOut)
  \/ \E text \in Inputs : TypeInput(text)
  \/ HandleSubmit
  \/ RespondSucceeded
  \/ \E timedOut \in BOOLEAN : RespondFailed(timedOut)
  \/ ErrorTimeout
  \/ \E hasUrl \in BOOLEAN : VoiceReplied(hasUrl)
SpecTeach == TeachInit /\ [][TeachNext]_vars

---------------------------------------------------------------------------
(* The generate-lesson route: the images of a lesson fetched together and  *)
(* distributed to its sections.  An image description is modelled by the   *)
(* section it belongs to and its place there, an image by the query it was *)
(* resolved from.                                                          *)

\* bounds on the lesson structure the generator returns
MaxSections == 3
MaxDescriptions == 2

\* description n of section s
Description(s, n) == [section |-> s, n |-> n]

\* 'https://source.unsplash.com/800x600/?education'
DefaultImage == [kind |-> "default"]

\* the first URL searchGoogleImages(query, 1) returns: an image of the
\* results, or the one of fallbackImages(query, 1) when the search has no key,
\* fails or finds nothing
FoundImage(query) == [kind |-> "result", query |-> query]
FallbackImage(query) == [kind |-> "fallback", query |-> query]

\* m.imageDescriptions of section s: missing, or an array of up to
\* MaxDescriptions descriptions
DescriptionLists(s) ==
  {JsUndefined} \cup
  {JsArray([n \in 1..len |-> Description(s, n)]) : len \in 0..MaxDescriptions}

\* the structures generateLessonStructure may return, past the test that
\* there is a section
RawLessons ==
  UNION { {raw \in [1..len -> UNION {DescriptionLists(s) : s \in 1..len}] :
             \A s \in 1..len : raw[s] \in DescriptionLists(s)} : len \in 1..MaxSections }

\* m.imageDescriptions || []
DescriptionsOrEmpty(m) == IF m.kind = "undefined" THEN <<>> ELSE m.items

\* rawMilestones.flatMap(m => m.imageDescriptions || [])
RECURSIVE FlatDescriptions(_)
FlatDescriptions(raw) ==
  IF raw = <<>> THEN <<>>
  ELSE DescriptionsOrEmpty(Head(raw)) \o FlatDescriptions(Tail(raw))

\* m.imageDescriptions?.length || 1
ImageCount(m) ==
  IF m.kind = "undefined" \/ Len(m.items) = 0 THEN 1 ELSE Len(m.items)

\* allImages.slice(start, end), with 0-based bounds
Slice(arr, start, end) == SubSeq(arr, start + 1, Min(end, Len(arr)))

\* imageUrls.length > 0 ? imageUrls : [the default image]
ImageUrlsOrDefault(imageUrls) ==
  IF Len(imageUrls) > 0 THEN imageUrls ELSE <<DefaultImage>>

\* the request arrives and the structure of the lesson is generated
LessonInit ==
  /\ rawMilestones \in RawLessons
  /\ allImages = <<>>
  /\ imageIndex = 0
  /\ milestones = <<>>
  /\ lessonPc = "fetch"
  /\ srvWords = <<>>
  /\ srvImageCues = <<>>
  /\ srvImageTimings = <<>>
  /\ cueIndex = 0
  /\ srvPc = "idle"

\* Step 3: allImages = await fetchMultipleImages(allImageDescriptions), one
\* search a description, each of which finds an image or falls back
FetchMultipleImages ==
  /\ lessonPc = "fetch"
  /\ LET queries == FlatDescriptions(rawMilestones)
     IN  \E found \in SUBSET {queries[i] : i \in 1..Len(queries)} :
           allImages' = [i \in 1..Len(queries) |->
                           IF queries[i] \in found THEN FoundImage(queries[i])
                           ELSE FallbackImage(queries[i])]
  /\ lessonPc' = "distribute"
  /\ UNCHANGED <<rawMilestones, imageIndex, milestones>>
  /\ UNCHANGED <<srvWords, srvImageCues, srvImageTimings, cueIndex, srvPc>>
  /\ UNCHANGED <<pageVars, boxVars, quizVars, teachVars>>

\* one call of the callback of rawMilestones.map: the images of the next
\* section are sliced from allImages and imageIndex moves on
DistributeStep ==
  /\ lessonPc = "distribute"
  /\ LET m == rawMilestones[Len(milestones) + 1]
         imageCount == ImageCount(m)
         imageUrls == Slice(allImages, imageIndex, imageIndex + imageCount)
     IN  /\ milestones' = Append(milestones, [imageUrls |-> ImageUrlsOrDefault(imageUrls)])
         /\ imageIndex' = imageIndex + imageCount
  /\ lessonPc' = IF Len(milestones) + 1 < Len(rawMilestones) THEN "distribute" ELSE "done"
  /\ UNCHANGED <<rawMilestones, allImages>>
  /\ UNCHANGED <<srvWords, srvImageCues, srvImageTimings, cueIndex, srvPc>>
  /\ UNCHANGED <<pageVars, boxVars, quizVars, teachVars>>

\* the generate-lesson route, from the generated structure to the stored lesson
AssembleInit == LessonInit /\ PageInit /\ BoxIdle /\ QuizUnused /\ TeachIdle
AssembleNext == FetchMultipleImages \/ DistributeStep
SpecAssemble == AssembleInit /\ [][AssembleNext]_vars

---------------------------------------------------------------------------
(* Claims about the lesson page, checked under Spec.                       *)

\* the override window of the latest manual image change is open
InWindow == sinceChange < OverrideDelay

\* automatic selection is defined: an alignment, timings, more than one image
SelectionDefined ==
  /\ Len(wordAlignments) > 0
  /\ Len(TimingsInUse(Milestone)) > 0
  /\ Len(Milestone.imageUrls) > 1

\* the greatest index i (0-based) with timings[i] <= t, 0 if there is none
GreatestTimingIndex(timings, t) ==
  LET le == {i \in 1..Len(timings) : timings[i] <= t}
  IN  IF le = {} THEN 0 ELSE (CHOOSE i \in le : \A h \in le : h <= i) - 1

\* the alignment elements (1-based) whose interval [start, end) holds t
WordsAt(t) ==
  {i \in 1..Len(wordAlignments) :
     wordAlignments[i].start <= t /\ t < wordAlignments[i].end}

\* C1: while the override window of a manual image change to k is open (less
\* than OverrideDelay seconds since the change), the manual override is
\* active, and a time tick that finds image k displayed leaves it displayed.
C1_OverrideWindowHolds ==
  [][ /\ (InWindow' => manualImageOverride')
      /\ (HandleTimeUpdate /\ InWindow /\ currentImageIndex = manualTarget
            => currentImageIndex' = manualTarget) ]_vars

\* C2: once the override window is over (every override timer has fired and
\* the override flag is clear), a time tick selects automatically: it leaves
\* displayed the image computed from the audio time of the tick.
C2_AutoResumesAfterWindow ==
  [][ HandleTimeUpdate /\ overrideTimers = <<>> /\ ~manualImageOverride /\ SelectionDefined
        => currentImageIndex' =
             TargetImageIndex(TimingsInUse(Milestone), audioTime, Len(Milestone.imageUrls)) ]_vars

\* C3: with the override inactive (for the page and for the handler) and an
\* alignment present, a time tick displays the greatest index i with
\* ImageTiming[i] <= currentTime (0 if none), clamped to imageCount - 1,
\* whether the timings are monotonic or not.
C3_GreatestTimingSelected ==
  [][ HandleTimeUpdate /\ ~manualImageOverride /\ ~hOverride /\ SelectionDefined
        => currentImageIndex' =
             Min(GreatestTimingIndex(TimingsInUse(Milestone), audioTime),
                 Len(Milestone.imageUrls) - 1) ]_vars

\* C4: the image index a time tick selects automatically is within
\* [0, imageCount - 1], whatever the time and the number of timings.
C4_AutoIndexInRange ==
  [][ HandleTimeUpdate /\ AutoSwitchApplies(Milestone)
        => currentImageIndex' \in 0..(Len(Milestone.imageUrls) - 1) ]_vars

\* a tick has just selected the last image of a section with more timings than
\* images, at a time past every timing
C4_Witness ==
  /\ lastOp = "tick"
  /\ lesson # <<>>
  /\ Len(imageTimings) > Len(Milestone.imageUrls)
  /\ \A i \in 1..Len(imageTimings) : imageTimings[i] <= currentTime
  /\ ~manualImageOverride
  /\ manualTarget = -1
  /\ currentImageIndex = Len(Milestone.imageUrls) - 1

\* C5: a time tick makes active the alignment element whose interval
\* [start, end) holds the audio time; when no interval holds it, the active
\* word index stays what it was.
C5_ActiveWordByInterval ==
  [][ HandleTimeUpdate
        => IF WordsAt(audioTime) = {}
           THEN currentWordIndex' = currentWordIndex
           ELSE WordsAt(audioTime) = {currentWordIndex' + 1} ]_vars

\* a tick in a gap of the alignment has kept the word that was active
C5_Witness ==
  /\ lastOp = "tick"
  /\ Len(wordAlignments) > 0
  /\ currentTime > wordAlignments[1].start
  /\ WordsAt(currentTime) = {}
  /\ currentWordIndex >= 0

\* C6: after a time tick, whenever currentTime is before the first word's
\* start, no word is active.
C6_NoWordBeforeFirstStart ==
  (lastOp = "tick" /\ Len(wordAlignments) > 0 /\ currentTime < wordAlignments[1].start)
    => currentWordIndex = -1

---------------------------------------------------------------------------
(* Claims about the cue resolver, checked under SpecCues.                  *)

\* the cue's tokens: split at whitespace, lower-cased, stripped of punctuation
NormalisedCue(cue) ==
  LET t == SplitWhitespace(cue)
  IN  [j \in 1..Len(t) |-> StripPunct(ToLowerCase(t[j]))]

\* the alignment, normalised the same way
NormalisedWords(words) ==
  [i \in 1..Len(words) |-> StripPunct(ToLowerCase(words[i].text))]

\* the positions (1-based) at which toks occurs contiguously in ws
Occurrences(toks, ws) ==
  {i \in 1..(Len(ws) - Len(toks) + 1) : SubSeq(ws, i, i + Len(toks) - 1) = toks}

\* C8: for the cue at index k of N, resolved against a non-empty alignment: if
\* its normalised token sequence occurs contiguously in the normalised
\* alignment, its timestamp is the start of the first word of the first
\* occurrence; otherwise it is (duration / N) * k, duration being the end of
\* the last aligned word.
C8_CueTimestamps ==
  \A k \in 1..Len(srvImageTimings) :
     LET occ == Occurrences(NormalisedCue(srvImageCues[k]), NormalisedWords(srvWords))
     IN  IF occ # {}
         THEN \E i \in occ : /\ \A h \in occ : i <= h
                             /\ srvImageTimings[k] = srvWords[i].start
         ELSE srvImageTimings[k] * Len(srvImageCues)
                = srvWords[Len(srvWords)].end * (k - 1)

\* both cases have happened in one request: a cue found at the first of two
\* occurrences, and a later cue resolved by its proportional slot
C8_Witness ==
  /\ srvPc = "done"
  /\ \E k \in 1..Len(srvImageTimings) :
        Cardinality(Occurrences(NormalisedCue(srvImageCues[k]), NormalisedWords(srvWords))) > 1
  /\ \E k \in 2..Len(srvImageTimings) :
        /\ Occurrences(NormalisedCue(srvImageCues[k]), NormalisedWords(srvWords)) = {}
        /\ srvImageTimings[k] > 0

---------------------------------------------------------------------------
(* Claims about the sandbox, checked under SpecSandbox.                    *)

\* the rearrangements of a sequence
Rearrangements(seq) ==
  {[i \in 1..Len(seq) |-> seq[f[i]]] : f \in Permutations(1..Len(seq))}

\* C10: checkCombination finds the same combination, or none, for every
\* order in which the pieces it was handed could have been placed.
C10_OrderIndependentMatch ==
  \A placed \in Rearrangements(lastChecked) : MatchingCombination(placed) = lastOutcome

\* a check has matched pieces that were placed in an order which is neither
\* the combination's own nor the sorted one
C10_Witness ==
  /\ lastOutcome > 0
  /\ PieceIds(lastChecked) # combinations[lastOutcome].pieces
  /\ PieceIds(lastChecked) # SortIds(PieceIds(lastChecked))

\* the ids of a sequence of pieces, as a set
IdSet(pieces) == {pieces[i].id : i \in 1..Len(pieces)}

\* the required ids of combination c, as a set
RequiredSet(c) == {combinations[c].pieces[i] : i \in 1..Len(combinations[c].pieces)}

\* C11: a check matches a combination only if the placed ids and the required
\* ids are the same set and as many; it matches no combination whose required
\* ids are a strict subset or a strict superset of the placed ids.
C11_ExactSetMatch ==
  /\ lastOutcome > 0 =>
       /\ IdSet(lastChecked) = RequiredSet(lastOutcome)
       /\ Len(lastChecked) = Len(combinations[lastOutcome].pieces)
  /\ \A c \in 1..Len(combinations) :
       (IdSet(lastChecked) # RequiredSet(c)
          /\ (RequiredSet(c) \subseteq IdSet(lastChecked) \/ IdSet(lastChecked) \subseteq RequiredSet(c)))
         => lastOutcome # c

\* a check has run on three pieces that hold the two of the first combination
\* and one more, and has not matched the first combination
C11_Witness ==
  /\ Len(lastChecked) = 3
  /\ RequiredSet(1) \subseteq IdSet(lastChecked)
  /\ RequiredSet(1) # IdSet(lastChecked)
  /\ lastOutcome # 1

\* C12: when the zone comes to hold exactly the pieces of a combination, the
\* match fires: a check is scheduled for the zone's contents, a check that
\* matches schedules the success effect of its combination, and the effect
\* empties the zone, appends the result once to created and once to
\* inventory, and surfaces the combination's explanation.
C12_ExactMatchFires ==
  [][ /\ (combineZone' # combineZone /\ MatchingCombination(combineZone') > 0)
           => /\ checkTimers' # <<>>
              /\ checkTimers'[Len(checkTimers')].pieces = combineZone'
      /\ (CheckCombination /\ MatchingCombination(Head(checkTimers).pieces) > 0)
           => /\ successTimers' # <<>>
              /\ successTimers'[Len(successTimers')].combo
                   = MatchingCombination(Head(checkTimers).pieces)
      /\ CombinationSuccess
           => LET combo == combinations[Head(successTimers).combo]
              IN  /\ combineZone' = <<>>
                  /\ created' = Append(created, combo.result)
                  /\ inventory' = Append(inventory, combo.result)
                  /\ lastExplanation' = combo.explanation ]_vars

\* C13: a check of at least two pieces that matches no combination changes
\* the hint text only: zone, inventory and created stay as they were, no
\* timer is started, and afterwards every piece of the zone can still be
\* taken out.
C13_NoMatchOnlyHints ==
  [][ (CheckCombination /\ Len(Head(checkTimers).pieces) >= 2
         /\ MatchingCombination(Head(checkTimers).pieces) = 0)
        => /\ lastExplanation' = NoCombinationHint
           /\ UNCHANGED <<combineZone, inventory, created, showCelebration,
                          successTimers, finalTimers>>
           /\ \A idx \in 1..Len(combineZone) : (ENABLED DragToInventory(idx))' ]_vars

\* a check has run on the zone's two or more pieces, found no combination,
\* and left the hint and the zone
C13_Witness ==
  /\ Len(lastChecked) >= 2
  /\ lastOutcome = 0
  /\ combineZone = lastChecked
  /\ lastExplanation = NoCombinationHint
  /\ inventory # <<>>

\* one piece for each id of a sequence of ids
PiecesOf(ids) == [i \in 1..Len(ids) |-> Piece(ids[i])]

\* the first combination that produces the piece with this id (0 if none)
ProducerOf(id) ==
  LET hits == {c \in 1..Len(combinations) : combinations[c].result.id = id}
  IN  IF hits = {} THEN 0 ELSE CHOOSE c \in hits : \A h \in hits : c <= h

\* C14: deconstructing a created piece R made by combination c removes R from
\* created and inventory, and adds to inventory exactly one piece for each
\* required id of c.
C14_DeconstructReturnsAll ==
  [][ \A idx \in 1..Len(created) :
        DeconstructPiece(idx) =>
          LET R == created[idx].id
          IN  /\ created' = WithoutId(created, R)
              /\ inventory' = WithoutId(inventory, R)
                                \o PiecesOf(combinations[ProducerOf(R)].pieces) ]_vars

---------------------------------------------------------------------------
(* More claims about the lesson page, checked under Spec.                  *)

\* C20: the override is cleared only when the full delay has passed since the
\* latest manual change: a timer that fires while a later change's timer is
\* still pending leaves the override active.
C20_LatestChangeWins ==
  [][ /\ (OverrideTimeout /\ Len(overrideTimers) > 1
             /\ overrideTimers[Len(overrideTimers)] > 0) => manualImageOverride'
      /\ (manualImageOverride /\ ~manualImageOverride' /\ lesson' = lesson)
           => sinceChange >= OverrideDelay ]_vars

---------------------------------------------------------------------------
(* Claims about the quiz, checked under SpecQuiz.                          *)

\* C15: answering is allowed once per question.  The first answer to the
\* question shown records the option, shows the explanation of the same
\* question, and adds 1 to the score iff the option is correctIndex (0
\* otherwise); an answer while the explanation shows changes nothing.
C15_AnswerOnce ==
  [][ \A answerIndex \in 0..3 :
        HandleQuizAnswer(answerIndex) =>
          IF Quiz.showExplanation
          THEN UNCHANGED <<quizState, answered>>
          ELSE /\ quizState'[1].selectedAnswer = answerIndex
               /\ quizState'[1].showExplanation
               /\ quizState'[1].currentQuestion = Quiz.currentQuestion
               /\ ~quizState'[1].isComplete
               /\ quizState'[1].score =
                    Quiz.score + (IF answerIndex = CurrentQuestion.correctIndex THEN 1 ELSE 0) ]_vars

\* the second question is explained after a right answer to it, the first
\* one having been answered wrongly
C15_Witness ==
  /\ QuestionShown
  /\ Quiz.showExplanation
  /\ Quiz.currentQuestion = 1
  /\ Quiz.selectedAnswer = CurrentQuestion.correctIndex
  /\ Quiz.score = 1

\* the number of answers of the current attempt that equal the correctIndex
\* of their question
RECURSIVE CorrectAnswers(_, _)
CorrectAnswers(questions, given) ==
  IF given = <<>> THEN 0
  ELSE CorrectAnswers(questions, SubSeq(given, 1, Len(given) - 1))
         + (IF given[Len(given)] = questions[Len(given)].correctIndex THEN 1 ELSE 0)

\* C16: in every Complete state the score is the number of questions of the
\* current attempt answered with their correctIndex; a retry sets the score
\* to 0 and the position to Question(0); 0 <= score <= number of questions
\* in every state of a quiz.
C16_ScoreOfCurrentAttempt ==
  /\ [] ((quizState # <<>> /\ Quiz.questions.kind = "array") =>
           /\ 0 <= Quiz.score
           /\ Quiz.score <= Len(Quiz.questions.items)
           /\ Quiz.isComplete =>
                /\ Len(answered) = Len(Quiz.questions.items)
                /\ Quiz.score = CorrectAnswers(Quiz.questions.items, answered))
  /\ [][ HandleRetryQuiz =>
           /\ quizState'[1].score = 0
           /\ quizState'[1].currentQuestion = 0
           /\ ~quizState'[1].showExplanation
           /\ ~quizState'[1].isComplete ]_vars

\* an attempt after a retry is complete with one question of two answered
\* rightly
C16_Witness ==
  /\ ResultsShown
  /\ retried
  /\ Len(Quiz.questions.items) = 2
  /\ Quiz.score = 1

\* a question list is well formed: four options and a numeric correctIndex each
WellFormed(questions) ==
  /\ questions.kind = "array"
  /\ \A i \in 1..Len(questions.items) :
       questions.items[i].options = 4 /\ questions.items[i].correctIsNumber

\* C19: a quiz session is in a question state only with a list of well-formed
\* questions; a reply that is an error or malformed payload does not put the
\* session in a question state, and the quiz cache holds well-formed question
\* lists only.
C19_OnlyWellFormedQuizzes ==
  /\ [] (quizState # <<>> => WellFormed(Quiz.questions))
  /\ [] (\A e \in quizCache : e.result.status = 200 /\ WellFormed(e.result.questions))
  /\ [][ (QuizLoaded /\ quizFetch.data.status # 200) => quizState' = <<>> ]_vars

---------------------------------------------------------------------------
(* Claims about the teaching challenge, checked under SpecTeach.           *)

\* C17: in every state 0 <= understanding <= maxUnderstanding, and the
\* challenge is complete exactly when understanding is maxUnderstanding;
\* every reply carries a delta within 0..10, and an accepted reply sets
\* understanding to the old value plus floor(delta / 2), capped at
\* maxUnderstanding.
C17_UnderstandingBounded ==
  /\ [] (0 <= understanding /\ understanding <= maxUnderstanding)
  /\ [] (isComplete <=> understanding = maxUnderstanding)
  /\ [] ((challengeFetch.state = "replied" /\ challengeFetch.action = "respond") =>
           (0 <= challengeFetch.body.understanding /\ challengeFetch.body.understanding <= 10))
  /\ [][ RespondSucceeded =>
           \E delta \in 0..10 :
              /\ delta = challengeFetch.body.understanding
              /\ understanding' =
                   IF understanding + (delta \div 2) > maxUnderstanding
                   THEN maxUnderstanding ELSE understanding + (delta \div 2) ]_vars

\* the challenge is complete after an accepted reply whose points went over
\* the maximum (the conversation holds more than one explanation)
C17_Witness ==
  /\ isComplete
  /\ understanding = maxUnderstanding
  /\ Len(messages) = 5
  /\ messages[3].role = "kid"
  /\ messages[5].reaction = "understanding"

\* C18: a failure of the evaluation (time-out, error reply or reply without
\* a response) leaves understanding and completion as they were and ends the
\* thinking; under the ceiling of MAX_RETRIES consecutive failures it adds 1
\* to the count and no message, at the ceiling it appends the canned kid
\* message and sets the count to 0.
C18_FailuresAbsorbed ==
  [][ \A timedOut \in BOOLEAN :
        RespondFailed(timedOut) =>
          /\ understanding' = understanding
          /\ isComplete' = isComplete /\ ~isComplete'
          /\ ~isThinking'
          /\ mounted'
          /\ IF retryCount >= 3
             THEN /\ messages' = Append(messages, Message("kid", CannedKidMessage, "confused"))
                  /\ retryCount' = 0
             ELSE /\ messages' = messages
                  /\ retryCount' = retryCount + 1 ]_vars

\* the canned message was injected by the failure after the third one in a
\* row, with some understanding already earned
C18_Witness ==
  /\ messages # <<>>
  /\ messages[Len(messages)].content = CannedKidMessage
  /\ retryCount = 0
  /\ understanding > 0
  /\ ~isThinking /\ ~isComplete

---------------------------------------------------------------------------
(* More claims about the sandbox, checked under SpecSandbox and            *)
(* SpecBreakdown.                                                          *)

\* the ids of the results of all the combinations
AllResults == {combinations[c].result.id : c \in 1..Len(combinations)}

\* C22: in build mode the final celebration message is shown exactly when
\* the result of every combination has been created: the message is not
\* shown before, and a success that completes the set schedules it.
C22_FinalWhenAllCreated ==
  /\ [][ FinalCelebration => AllResults \subseteq IdSet(created) ]_vars
  /\ [][ (CombinationSuccess /\ AllResults \subseteq IdSet(created'))
           => finalTimers' = finalTimers + 1 ]_vars

\* C23: in breakdown mode each click that is not the last moves the level up
\* by one and reveals the predefined level of that number (the first click the
\* first level); the levels-exhausted celebration is shown only when every
\* predefined level has been revealed; the level changes by a click or a
\* reset only.
C23_LevelsInOrder ==
  /\ [][ \A idx \in 1..Len(inventory) :
           HandleBreakdown(idx) =>
             \/ /\ currentLevel' = currentLevel + 1
                /\ revealed' = revealed \cup {currentLevel'}
             \/ /\ currentLevel' = currentLevel
                /\ showCelebration'
                /\ revealed = 1..Len(data.breakdownLevels) ]_vars
  /\ [][ currentLevel' # currentLevel =>
           \/ currentLevel' = currentLevel + 1
           \/ resetSandbox ]_vars

\* C25: a success effect finds every piece of its combination in the zone
\* and none of them in the inventory, takes exactly those out of the zone,
\* leaves every other piece of the zone in it, and adds the result only.
C25_OnlyMatchedPiecesConsumed ==
  [][ CombinationSuccess =>
        LET c == Head(successTimers).combo
            Unmatched(p) == p.id \notin RequiredSet(c)
        IN  /\ RequiredSet(c) \subseteq IdSet(combineZone)
            /\ RequiredSet(c) \cap IdSet(inventory) = {}
            /\ combineZone' = SelectSeq(combineZone, Unmatched)
            /\ IdSet(inventory') = IdSet(inventory) \cup {combinations[c].result.id} ]_vars

\* C26: after resetSandbox and until the next user action, the inventory
\* is the starting pieces, the zone and created are empty and the level is 0.
C26_ResetStateStays ==
  afterReset =>
    /\ inventory = ResetInventory
    /\ combineZone = <<>>
    /\ created = <<>>
    /\ currentLevel = 0

---------------------------------------------------------------------------
(* More claims about the quiz, checked under SpecQuiz.                     *)

\* the score of the open quiz is at least 75% of its questions
Passed == Quiz.score * 100 >= 75 * Len(Quiz.questions.items)

\* C28: a section enters completedSections, and the lesson is marked
\* complete, only by a step taken from a quiz that is complete with a score
\* of at least 75%.
C28_CompletedOnlyAfterPass ==
  [][ (completedSections' # completedSections \/ (lessonComplete' /\ ~lessonComplete))
        => /\ quizState # <<>>
           /\ Quiz.isComplete
           /\ Passed ]_vars

---------------------------------------------------------------------------
(* More claims about the teaching challenge, checked under SpecTeach.      *)

\* C29: the transcript of the teaching conversation starts with the kid and
\* no two consecutive messages have the same speaker.
C29_SpeakersAlternate ==
  messages # <<>> =>
    /\ messages[1].role = "kid"
    /\ \A i \in 1..(Len(messages) - 1) : messages[i].role # messages[i + 1].role

---------------------------------------------------------------------------
(* Claims about moving between sections, checked under SpecNav.            *)

\* C21: at every time tick the alignment and the image timings in use are
\* those of a response to the request of the current section.
C21_TicksUseCurrentAlignment ==
  [][ HandleTimeUpdate =>
        \E outcome \in AudioResponses :
          /\ wordAlignments = ResponseWords(currentMilestone, outcome)
          /\ imageTimings = CalcImageTimings(ResponseWords(currentMilestone, outcome),
                                             Milestone.imageCues) ]_vars

\* C24: the image index on display is an index of the image list of the
\* current section.
C24_ImageIndexValid ==
  lesson # <<>> => currentImageIndex \in 0..(Len(Milestone.imageUrls) - 1)

\* C27: the current section is never one the side panel treats as locked.
C27_LockedNeverCurrent ==
  lesson # <<>> => ~isLocked(currentMilestone)

---------------------------------------------------------------------------
(* Claims about the assembly of a lesson, checked under SpecAssemble.      *)

\* the images resolved from the descriptions of section s, in their order
OwnImages(s) ==
  LET own == DescriptionsOrEmpty(rawMilestones[s])
  IN  [n \in 1..Len(own) |->
         CHOOSE img \in {FoundImage(own[n]), FallbackImage(own[n])} :
           \E i \in 1..Len(allImages) : allImages[i] = img]

\* C30: in the assembled lesson a section with descriptions holds the images
\* resolved from its own descriptions, in order, and a section without
\* descriptions holds the default image alone.
C30_OwnImagesOnly ==
  lessonPc = "done" =>
    \A s \in 1..Len(rawMilestones) :
      milestones[s].imageUrls =
        IF DescriptionsOrEmpty(rawMilestones[s]) = <<>> THEN <<DefaultImage>>
        ELSE OwnImages(s)

============================================================================
